---- MODULE Spec2Model ----
(***************************************************************************)
(* A model of the code-relationship analyzer (CodeAnalysisService) of the  *)
(* "AI Code Explanation" extension.  Document lines are strings; the       *)
(* regular expressions of the source are written as node lists and run by  *)
(* a backtracking matcher that follows the JavaScript semantics the code   *)
(* relies on (leftmost match, greedy quantifiers, capture group 1, the     *)
(* lastIndex of a global RegExp).                                          *)
(***************************************************************************)
EXTENDS Integers, Sequences, FiniteSets, TLC

(***************************************************************************)
(* Characters and character classes.                                       *)
(***************************************************************************)
LowerChars == {"a","b","c","d","e","f","g","h","i","j","k","l","m",
               "n","o","p","q","r","s","t","u","v","w","x","y","z"}

UpperChars == {"A","B","C","D","E","F","G","H","I","J","K","L","M",
               "N","O","P","Q","R","S","T","U","V","W","X","Y","Z"}

DigitChars == {"0","1","2","3","4","5","6","7","8","9"}

\* \s of a RegExp, restricted to the white space a single line can hold
SpaceChars == {" ", "\t"}

\* \w of a RegExp: the characters between which \b finds no boundary
WordChars == LowerChars \cup UpperChars \cup DigitChars \cup {"_"}

\* [a-zA-Z_$] and [a-zA-Z0-9_$]
IdStart == LowerChars \cup UpperChars \cup {"_", "$"}

IdPart == IdStart \cup DigitChars

\* [a-zA-Z0-9_]
AlnumUnder == LowerChars \cup UpperChars \cup DigitChars \cup {"_"}

CharAt(s, i) == SubSeq(s, i, i)

(***************************************************************************)
(* Regular expressions.  A pattern is a sequence of nodes:                 *)
(*   <<"set", S>>            one character of S                            *)
(*   <<"not", S>>            one character outside S                       *)
(*   <<"any">>               .                                             *)
(*   <<"rep", node, lo, hi>> greedy repetition of a one-character node,    *)
(*                           hi < 0 for no upper limit                     *)
(*   <<"alt", <<p1, ..>>>>   alternation of patterns, tried in order       *)
(*   <<"open">>, <<"close">> the parentheses of capture group 1            *)
(*   <<"bol">>, <<"eol">>    ^ and $                                       *)
(*   <<"wb">>                \b                                            *)
(***************************************************************************)
Set(S) == << <<"set", S>> >>

NotSet(S) == << <<"not", S>> >>

Star(S) == << <<"rep", <<"set", S>>, 0, -1>> >>

Plus(S) == << <<"rep", <<"set", S>>, 1, -1>> >>

PlusNot(S) == << <<"rep", <<"not", S>>, 1, -1>> >>

Opt(S) == << <<"rep", <<"set", S>>, 0, 1>> >>

AnyStar == << <<"rep", <<"any">>, 0, -1>> >>

Alt(ps) == << <<"alt", ps>> >>

Open == << <<"open">> >>

Close == << <<"close">> >>

Bol == << <<"bol">> >>

Wb == << <<"wb">> >>

\* a literal piece of pattern text without metacharacters
Lit(str) == [k \in 1..Len(str) |-> <<"set", {CharAt(str, k)}>>]

\* \s* and \s+
Ws == Star(SpaceChars)

Ws1 == Plus(SpaceChars)

\* ([a-zA-Z_$][a-zA-Z0-9_$]*)
IdGroup == Open \o Set(IdStart) \o Star(IdPart) \o Close

\* an identifier spliced into the source text of a RegExp: of the characters an
\* identifier can hold only $ is a metacharacter, the end-of-input assertion
Interp(name) ==
    [k \in 1..Len(name) |->
        IF CharAt(name, k) = "$" THEN <<"eol">> ELSE <<"set", {CharAt(name, k)}>>]

NodeAccepts(node, c) ==
    CASE node[1] = "set" -> c \in node[2]
      [] node[1] = "not" -> c \notin node[2]
      [] node[1] = "any" -> TRUE

RECURSIVE RunLen(_, _, _, _)
\* how many characters from position i on (at most max) the one-character node accepts
RunLen(node, s, i, max) ==
    IF max = 0 \/ i > Len(s) \/ ~NodeAccepts(node, CharAt(s, i))
    THEN 0
    ELSE 1 + RunLen(node, s, i + 1, max - 1)

IsWordAt(s, i) == i >= 1 /\ i <= Len(s) /\ CharAt(s, i) \in WordChars

NoMatch == [ok |-> FALSE]

RECURSIVE MatchHere(_, _, _, _, _)
RECURSIVE TryRep(_, _, _, _, _, _, _)
RECURSIVE TryAlt(_, _, _, _, _, _, _)

\* The backtracking matcher: pattern p from position i of s, capture group 1
\* so far at cs..ce.  The first match in priority order, or NoMatch.
MatchHere(p, s, i, cs, ce) ==
    IF p = <<>> THEN [ok |-> TRUE, end |-> i, cs |-> cs, ce |-> ce]
    ELSE LET node == Head(p)
             rest == Tail(p)
         IN CASE node[1] \in {"set", "not", "any"} ->
                    IF i <= Len(s) /\ NodeAccepts(node, CharAt(s, i))
                    THEN MatchHere(rest, s, i + 1, cs, ce)
                    ELSE NoMatch
              [] node[1] = "rep" ->
                    TryRep(rest, s, i,
                           RunLen(node[2], s, i, IF node[4] < 0 THEN Len(s) ELSE node[4]),
                           node[3], cs, ce)
              [] node[1] = "alt" -> TryAlt(node[2], 1, rest, s, i, cs, ce)
              [] node[1] = "open" -> MatchHere(rest, s, i, i, ce)
              [] node[1] = "close" -> MatchHere(rest, s, i, cs, i)
              [] node[1] = "bol" ->
                    IF i = 1 THEN MatchHere(rest, s, i, cs, ce) ELSE NoMatch
              [] node[1] = "eol" ->
                    IF i = Len(s) + 1 THEN MatchHere(rest, s, i, cs, ce) ELSE NoMatch
              [] node[1] = "wb" ->
                    IF IsWordAt(s, i - 1) # IsWordAt(s, i)
                    THEN MatchHere(rest, s, i, cs, ce)
                    ELSE NoMatch

\* greedy: the longest run first, then shorter ones down to lo
TryRep(rest, s, i, n, lo, cs, ce) ==
    IF n < lo THEN NoMatch
    ELSE LET r == MatchHere(rest, s, i + n, cs, ce)
         IN IF r.ok THEN r ELSE TryRep(rest, s, i, n - 1, lo, cs, ce)

TryAlt(alts, k, rest, s, i, cs, ce) ==
    IF k > Len(alts) THEN NoMatch
    ELSE LET r == MatchHere(alts[k] \o rest, s, i, cs, ce)
         IN IF r.ok THEN r ELSE TryAlt(alts, k + 1, rest, s, i, cs, ce)

RECURSIVE SearchFrom(_, _, _)
\* RegExp.prototype.exec from 0-based offset `from`: the leftmost match.
\* index and lastIndex are 0-based offsets as in JavaScript; group is capture 1.
SearchFrom(p, s, from) ==
    IF from > Len(s) THEN NoMatch
    ELSE LET r == MatchHere(p, s, from + 1, 0, 0)
         IN IF r.ok
            THEN [ok |-> TRUE, index |-> from, lastIndex |-> r.end - 1,
                  group |-> IF r.cs = 0 THEN "" ELSE SubSeq(s, r.cs, r.ce - 1)]
            ELSE SearchFrom(p, s, from + 1)

\* pattern.test(s) / pattern.exec(s) / s.match(pattern) of a RegExp without the g flag
Test(p, s) == SearchFrom(p, s, 0).ok

RECURSIVE ExecAll(_, _, _)
\* while ((match = pattern.exec(s)) !== null) collect match[1], for a g-flagged RegExp
\* created for this loop: the captures in the order found
ExecAll(p, s, from) ==
    LET r == SearchFrom(p, s, from)
    IN IF ~r.ok THEN <<>>
       ELSE <<r.group>> \o
            ExecAll(p, s, r.lastIndex)

(***************************************************************************)
(* String helpers of the JavaScript runtime.                               *)
(***************************************************************************)
RECURSIVE TrimStart(_)
TrimStart(s) ==
    IF Len(s) > 0 /\ CharAt(s, 1) \in SpaceChars THEN TrimStart(SubSeq(s, 2, Len(s))) ELSE s

RECURSIVE TrimEnd(_)
TrimEnd(s) ==
    IF Len(s) > 0 /\ CharAt(s, Len(s)) \in SpaceChars
    THEN TrimEnd(SubSeq(s, 1, Len(s) - 1))
    ELSE s

\* String.prototype.trim
Trim(s) == TrimEnd(TrimStart(s))

\* String.prototype.startsWith
StartsWith(s, prefix) ==
    Len(prefix) <= Len(s) /\ SubSeq(s, 1, Len(prefix)) = prefix

\* String.prototype.includes
Includes(s, sub) ==
    \E k \in 0..(Len(s) - Len(sub)) : SubSeq(s, k + 1, k + Len(sub)) = sub

RECURSIVE SplitAt(_, _, _, _)
\* String.prototype.split on a one-character separator
SplitAt(s, sep, k, start) ==
    IF k > Len(s) THEN <<SubSeq(s, start, Len(s))>>
    ELSE IF CharAt(s, k) = sep
         THEN <<SubSeq(s, start, k - 1)>> \o SplitAt(s, sep, k + 1, k + 1)
         ELSE SplitAt(s, sep, k + 1, start)

Split(s, sep) == SplitAt(s, sep, 1, 1)

Range(f) == {f[k] : k \in DOMAIN f}

Min(a, b) == IF a < b THEN a ELSE b

Max(a, b) == IF a > b THEN a ELSE b

RECURSIVE Dedupe(_)
\* [...new Set(array)]: the first occurrence of each element, in order
Dedupe(seq) ==
    IF seq = <<>> THEN <<>>
    ELSE LET init == Dedupe(SubSeq(seq, 1, Len(seq) - 1))
             last == seq[Len(seq)]
         IN IF last \in Range(init) THEN init ELSE Append(init, last)

(***************************************************************************)
(* The document accessor: an ordered, 0-indexed sequence of text lines.    *)
(***************************************************************************)
LineCount(doc) == Len(doc)

\* document.lineAt(i).text for a line the accessor can deliver
LineAt(doc, i) == doc[i + 1]

(***************************************************************************)
(* findVariableRelationships                                               *)
(***************************************************************************)
\* the five variablePatterns, in the order of the array
VariablePatterns ==
    << Alt(<<Lit("const"), Lit("let"), Lit("var")>>) \o Ws1 \o IdGroup,
       IdGroup \o Ws \o Lit("="),
       IdGroup \o Ws \o Lit("("),
       IdGroup \o Lit("."),
       IdGroup \o Lit("[") >>

\* the Set<string> variables: every capture of every pattern on the target line
ExtractVariables(text) ==
    UNION {Range(ExecAll(VariablePatterns[k], text, 0)) : k \in DOMAIN VariablePatterns}

\* new RegExp(`\\b${variable}\\b`, 'g'), created for one test of one line
VariableRegex(variable) == Wb \o Interp(variable) \o Wb

\* the lines findVariableRelationships adds to relatedLines
FindVariableRelationships(doc, targetLine, text) ==
    LET variables == ExtractVariables(text)
    IN {i \in 0..(LineCount(doc) - 1) :
            /\ i # targetLine
            /\ \E v \in variables : Test(VariableRegex(v), LineAt(doc, i))}

(***************************************************************************)
(* findFunctionRelationships                                               *)
(***************************************************************************)
BuiltIns ==
    {"console", "log", "error", "warn", "info",
     "setTimeout", "setInterval", "clearTimeout", "clearInterval",
     "parseInt", "parseFloat", "isNaN", "isFinite",
     "Math", "Date", "Array", "Object", "String", "Number", "Boolean",
     "if", "else", "for", "while", "do", "switch", "case", "break", "continue", "return"}

IsBuiltInFunction(name) == name \in BuiltIns

FunctionCallPattern == IdGroup \o Ws \o Lit("(")

\* the five functionDefPatterns built for one function name
FunctionDefPatterns(functionName) ==
    << Lit("function") \o Ws1 \o Interp(functionName) \o Ws \o Lit("("),
       Lit("const") \o Ws1 \o Interp(functionName) \o Ws \o Lit("=") \o Ws \o Lit("function"),
       Lit("const") \o Ws1 \o Interp(functionName) \o Ws \o Lit("=") \o Ws \o Lit("("),
       Interp(functionName) \o Ws \o Lit(":") \o Ws \o Lit("function"),
       Interp(functionName) \o Ws \o Lit("(") \o AnyStar \o Lit(")") \o Ws \o Lit("=>") >>

RECURSIVE GlobalTestLines(_, _, _, _, _)
\* One g-flagged RegExp p tested against line i, i+1, ... in turn (the target line
\* skipped): test() searches from the lastIndex the previous test left, leaves
\* the end of its match there, and resets it to 0 when it finds nothing.
GlobalTestLines(p, doc, i, targetLine, lastIndex) ==
    IF i >= LineCount(doc) THEN {}
    ELSE IF i = targetLine THEN GlobalTestLines(p, doc, i + 1, targetLine, lastIndex)
    ELSE LET r == SearchFrom(p, LineAt(doc, i), lastIndex)
         IN IF r.ok
            THEN {i} \cup GlobalTestLines(p, doc, i + 1, targetLine, r.lastIndex)
            ELSE GlobalTestLines(p, doc, i + 1, targetLine, 0)

\* the function names the while loop goes on to search: the call-shaped names
\* of the target line that are not built in
SearchedFunctionNames(text) ==
    {name \in Range(ExecAll(FunctionCallPattern, text, 0)) : ~IsBuiltInFunction(name)}

\* the lines findFunctionRelationships adds to relatedLines
FindFunctionRelationships(doc, targetLine, text) ==
    UNION {GlobalTestLines(FunctionDefPatterns(name)[k], doc, 0, targetLine, 0) :
               name \in SearchedFunctionNames(text), k \in 1..5}

(***************************************************************************)
(* Brace matching: findControlStructureBoundaries and findClassBoundaries  *)
(***************************************************************************)
RECURSIVE ScanLineBraces(_, _, _, _)
\* the for-of loop over the characters of one line, from character k on, with
\* the running braceCount and foundOpenBrace; closed when the count is back at 0
ScanLineBraces(s, k, braceCount, foundOpenBrace) ==
    IF k > Len(s)
    THEN [closed |-> FALSE, braceCount |-> braceCount, foundOpenBrace |-> foundOpenBrace]
    ELSE IF CharAt(s, k) = "{"
         THEN ScanLineBraces(s, k + 1, braceCount + 1, TRUE)
         ELSE IF CharAt(s, k) = "}"
              THEN IF foundOpenBrace /\ braceCount - 1 = 0
                   THEN [closed |-> TRUE, braceCount |-> 0, foundOpenBrace |-> TRUE]
                   ELSE ScanLineBraces(s, k + 1, braceCount - 1, foundOpenBrace)
              ELSE ScanLineBraces(s, k + 1, braceCount, foundOpenBrace)

RECURSIVE ClosingLine(_, _, _, _)
\* the first line from i on at which the brace count returns to 0, or -1
ClosingLine(doc, i, braceCount, foundOpenBrace) ==
    IF i >= LineCount(doc) THEN -1
    ELSE LET r == ScanLineBraces(LineAt(doc, i), 1, braceCount, foundOpenBrace)
         IN IF r.closed THEN i
            ELSE ClosingLine(doc, i + 1, r.braceCount, r.foundOpenBrace)

\* the array boundaries: [controlLine] or [controlLine, closing line]
FindControlStructureBoundaries(doc, controlLine) ==
    LET close == ClosingLine(doc, controlLine, 0, FALSE)
    IN IF close = -1 THEN <<controlLine>> ELSE <<controlLine, close>>

(***************************************************************************)
(* findContainingFunction and findContainingClass                          *)
(***************************************************************************)
Undefined == [found |-> FALSE, name |-> ""]

Defined(name) == [found |-> TRUE, name |-> name]

ContainingFunctionPatterns ==
    << Lit("function") \o Ws1 \o IdGroup \o Ws \o Lit("("),
       Lit("const") \o Ws1 \o IdGroup \o Ws \o Lit("=") \o Ws \o Lit("function"),
       Lit("const") \o Ws1 \o IdGroup \o Ws \o Lit("=") \o Ws \o Lit("("),
       IdGroup \o Ws \o Lit(":") \o Ws \o Lit("function"),
       IdGroup \o Ws \o Lit("(") \o AnyStar \o Lit(")") \o Ws \o Lit("=>") >>

ContainingClassPatterns ==
    << Lit("class") \o Ws1 \o IdGroup,
       Lit("interface") \o Ws1 \o IdGroup,
       Lit("type") \o Ws1 \o IdGroup >>

RECURSIVE FirstCapture(_, _, _)
\* for (const pattern of patterns) { match = pattern.exec(lineText); if (match) return match[1] }
FirstCapture(patterns, k, lineText) ==
    IF k > Len(patterns) THEN Undefined
    ELSE LET r == SearchFrom(patterns[k], lineText, 0)
         IN IF r.ok THEN Defined(r.group) ELSE FirstCapture(patterns, k + 1, lineText)

RECURSIVE ScanBackForName(_, _, _)
\* for (let i = targetLine - 1; i >= 0; i--): the name of the nearest line above
\* the target that matches one of the patterns
ScanBackForName(patterns, doc, i) ==
    IF i < 0 THEN Undefined
    ELSE LET r == FirstCapture(patterns, 1, LineAt(doc, i))
         IN IF r.found THEN r ELSE ScanBackForName(patterns, doc, i - 1)

FindContainingFunction(doc, targetLine) ==
    ScanBackForName(ContainingFunctionPatterns, doc, targetLine - 1)

FindContainingClass(doc, targetLine) ==
    ScanBackForName(ContainingClassPatterns, doc, targetLine - 1)

(***************************************************************************)
(* enhancedControlFlowAnalysis and its strategies                          *)
(***************************************************************************)
ParenOrBrace == Set({"(", "{"})

IsLoopStructure(lineText) ==
    Test(Bol \o Ws \o Alt(<<Lit("for"), Lit("while"), Lit("do")>>) \o Ws \o ParenOrBrace,
         lineText)

IsConditionalStructure(lineText) ==
    Test(Bol \o Ws \o Alt(<<Lit("if"), Lit("else") \o Ws \o Lit("if"), Lit("else")>>)
             \o Ws \o ParenOrBrace,
         lineText)

IsTryCatchStructure(lineText) ==
    Test(Bol \o Ws \o Alt(<<Lit("try"), Lit("catch"), Lit("finally")>>) \o Ws \o ParenOrBrace,
         lineText)

IsSwitchStructure(lineText) ==
    Test(Bol \o Ws \o Alt(<<Lit("switch"), Lit("case"), Lit("default")>>) \o Ws
             \o Set({"(", ":"}),
         lineText)

IsBreakOrContinue(lineText) ==
    Test(Bol \o Ws \o Alt(<<Lit("break"), Lit("continue")>>) \o Ws \o Opt({";"}), lineText)

IsReturnStatement(lineText) == Test(Bol \o Ws \o Lit("return") \o Wb, lineText)

IsWhitespaceOrComment(lineText) ==
    LET trimmed == Trim(lineText)
    IN \/ trimmed = ""
       \/ StartsWith(trimmed, "//")
       \/ StartsWith(trimmed, "/*")
       \/ StartsWith(trimmed, "*")
       \/ StartsWith(trimmed, "#")

Last(seq) == seq[Len(seq)]

\* a findLoopRelationships that looks for break and continue down to the end
\* of the document
LoopWithEveryBreakBelow(doc, loopLine) ==
    LET boundaries == FindControlStructureBoundaries(doc, loopLine)
    IN Range(boundaries) \cup
       (IF Len(boundaries) > 1
        THEN {i \in (loopLine + 1)..(LineCount(doc) - 1) : IsBreakOrContinue(LineAt(doc, i))}
        ELSE {})

FindLoopRelationships(doc, loopLine) ==
    LET boundaries == FindControlStructureBoundaries(doc, loopLine)
    IN Range(boundaries) \cup
       (IF Len(boundaries) > 1
        THEN {i \in (loopLine + 1)..(Last(boundaries) - 1) : IsBreakOrContinue(LineAt(doc, i))}
        ELSE {})

IsElseHeader(lineText) ==
    \/ Test(Bol \o Ws \o Lit("else") \o Ws \o Lit("if") \o Ws \o Lit("("), lineText)
    \/ Test(Bol \o Ws \o Lit("else") \o Ws \o Opt({"{"}), lineText)

RECURSIVE ElseWalk(_, _)
\* a forward walk that never stops: every else if / else header from line i on
ElseWalkToTheEnd(doc, i) ==
    {j \in i..(LineCount(doc) - 1) : IsElseHeader(Trim(LineAt(doc, j)))}

\* the forward walk for else if / else from line i on
ElseWalk(doc, i) ==
    IF i >= LineCount(doc) THEN {}
    ELSE LET lineText == Trim(LineAt(doc, i))
         IN IF IsElseHeader(lineText) THEN {i} \cup ElseWalk(doc, i + 1)
            ELSE IF lineText # "" /\ ~StartsWith(lineText, "}")
                    /\ ~IsWhitespaceOrComment(lineText)
                 THEN {}
                 ELSE ElseWalk(doc, i + 1)

\* a findConditionalRelationships that stopped after the else walk
ConditionalWithoutBoundaries(doc, condLine) == {condLine} \cup ElseWalk(doc, condLine + 1)

FindConditionalRelationships(doc, condLine) ==
    {condLine} \cup ElseWalk(doc, condLine + 1)
        \cup Range(FindControlStructureBoundaries(doc, condLine))

IsCatchOrFinallyHeader(lineText) ==
    Test(Bol \o Ws \o Alt(<<Lit("catch"), Lit("finally")>>) \o Ws \o ParenOrBrace, lineText)

FindTryCatchRelationships(doc, tryLine) ==
    LET boundaries == FindControlStructureBoundaries(doc, tryLine)
    IN {tryLine} \cup
       (IF Len(boundaries) > 1
        THEN {i \in (tryLine + 1)..Last(boundaries) :
                  IsCatchOrFinallyHeader(Trim(LineAt(doc, i)))}
        ELSE {})

IsSwitchHeader(lineText) == Test(Bol \o Ws \o Lit("switch") \o Ws \o Lit("("), lineText)

IsCaseOrDefault(lineText) ==
    Test(Bol \o Ws \o Alt(<<Lit("case"), Lit("default")>>) \o Ws, lineText)

\* the first branch of findSwitchRelationships: switchLine is a switch header
SwitchCases(doc, switchLine) ==
    LET boundaries == FindControlStructureBoundaries(doc, switchLine)
    IN IF Len(boundaries) > 1
       THEN {i \in (switchLine + 1)..(Last(boundaries) - 1) : IsCaseOrDefault(LineAt(doc, i))}
       ELSE {}

\* for (let i = from; i >= 0; i--) { if (...) { ...; break } }: of the lines
\* from 0 to `from` that satisfy the condition the scan stops at the greatest,
\* -1 stands for none
NearestAbove(lines) ==
    IF lines = {} THEN -1 ELSE CHOOSE i \in lines : \A j \in lines : j <= i

FindSwitchRelationships(doc, switchLine) ==
    LET lineText == LineAt(doc, switchLine)
    IN IF IsSwitchHeader(lineText) THEN SwitchCases(doc, switchLine)
       ELSE IF IsCaseOrDefault(lineText)
            THEN LET header == NearestAbove({i \in 0..(switchLine - 1) :
                                                   IsSwitchHeader(LineAt(doc, i))})
                 IN IF header = -1 THEN {} ELSE SwitchCases(doc, header)
            ELSE {}

FindRelatedLoopStructure(doc, breakLine) ==
    LET loop == NearestAbove({i \in 0..(breakLine - 1) : IsLoopStructure(LineAt(doc, i))})
    IN IF loop = -1 THEN {} ELSE {loop} \cup FindLoopRelationships(doc, loop)

HasFunctionMark(lineText) ==
    Test(Alt(<<Lit("function"), Lit("=>"), Lit(":")>>), lineText)

FindRelatedFunctionStructure(doc, returnLine) ==
    LET function == FindContainingFunction(doc, returnLine)
        IsDefinition(lineText) ==
            Includes(lineText, function.name) /\ HasFunctionMark(lineText)
        line == NearestAbove({i \in 0..(returnLine - 1) : IsDefinition(LineAt(doc, i))})
    IN IF function.found /\ line # -1 THEN {line} ELSE {}

\* a control-flow finder that, for a target line that is no control structure,
\* looks for the control structure around it and adds that structure's first
\* and last line (what the superseded findControlFlowRelationships did)
ContainingStructureAnalysis(doc, targetLine) ==
    LET IsControl(lineText) ==
            \/ IsLoopStructure(Trim(lineText))
            \/ IsConditionalStructure(Trim(lineText))
            \/ IsTryCatchStructure(Trim(lineText))
            \/ IsSwitchStructure(Trim(lineText))
        Encloses(i) ==
            /\ IsControl(LineAt(doc, i))
            /\ Len(FindControlStructureBoundaries(doc, i)) > 1
            /\ targetLine <= Last(FindControlStructureBoundaries(doc, i))
        enclosing == {i \in 0..(targetLine - 1) : Encloses(i)}
        nearest == CHOOSE i \in enclosing : \A j \in enclosing : j <= i
    IN IF IsControl(LineAt(doc, targetLine))
       THEN Range(FindControlStructureBoundaries(doc, targetLine))
       ELSE IF enclosing = {} THEN {}
       ELSE {nearest} \cup Range(FindControlStructureBoundaries(doc, nearest))

\* the lines enhancedControlFlowAnalysis adds to relatedLines
EnhancedControlFlowAnalysis(doc, targetLine) ==
    LET targetLineText == Trim(LineAt(doc, targetLine))
    IN (IF IsLoopStructure(targetLineText) THEN FindLoopRelationships(doc, targetLine)
        ELSE IF IsConditionalStructure(targetLineText)
             THEN FindConditionalRelationships(doc, targetLine)
        ELSE IF IsTryCatchStructure(targetLineText)
             THEN FindTryCatchRelationships(doc, targetLine)
        ELSE IF IsSwitchStructure(targetLineText)
             THEN FindSwitchRelationships(doc, targetLine)
        ELSE {})
       \cup (IF IsBreakOrContinue(targetLineText)
             THEN FindRelatedLoopStructure(doc, targetLine) ELSE {})
       \cup (IF IsReturnStatement(targetLineText)
             THEN FindRelatedFunctionStructure(doc, targetLine) ELSE {})

(***************************************************************************)
(* enhancedImportAnalysis                                                  *)
(***************************************************************************)
LowerIdGroup == Open \o Set(LowerChars) \o Star(AlnumUnder) \o Close

\* the four patterns of extractAllIdentifiers, in the order of the array
IdentifierPatterns ==
    << Open \o Set(UpperChars) \o Star(AlnumUnder) \o Close,
       LowerIdGroup \o Ws \o Lit("("),
       LowerIdGroup \o Lit("."),
       LowerIdGroup \o Lit("[") >>

RECURSIVE ConcatAll(_)
ConcatAll(seqs) == IF seqs = <<>> THEN <<>> ELSE Head(seqs) \o ConcatAll(Tail(seqs))

ExtractAllIdentifiers(lineText) ==
    Dedupe(ConcatAll([k \in DOMAIN IdentifierPatterns |->
                         ExecAll(IdentifierPatterns[k], lineText, 0)]))

\* the document is scanned for imports up to this line
ImportScanLimit == 100

NamedImportPattern ==
    Lit("import") \o Ws \o Lit("{") \o Ws \o Open \o PlusNot({"}"}) \o Close
        \o Ws \o Lit("}") \o Ws \o Lit("from")

DefaultImportPattern == Lit("import") \o Ws1 \o IdGroup \o Ws1 \o Lit("from")

NamespaceImportPattern ==
    Lit("import") \o Ws \o Lit("*") \o Ws \o Lit("as") \o Ws1 \o IdGroup \o Ws1 \o Lit("from")

RequirePattern ==
    Lit("const") \o Ws1 \o IdGroup \o Ws \o Lit("=") \o Ws \o Lit("require") \o Lit("(")

\* the keys one line sets in namedImports
NamedImportNames(lineText) ==
    LET m == SearchFrom(NamedImportPattern, lineText, 0)
    IN IF m.ok THEN {Trim(n) : n \in Range(Split(m.group, ","))} ELSE {}

\* the key one line sets in a single-name bucket, as a set of at most one name
SingleImportName(pattern, lineText) ==
    LET m == SearchFrom(pattern, lineText, 0)
    IN IF m.ok THEN {m.group} ELSE {}

\* a Map<string, number> filled by set(name, i) for i = 0, 1, ...: each name
\* keeps the last line that set it; setBy[i] are the names line i sets
LastSetter(setBy) ==
    LET names == UNION Range(setBy)
    IN [n \in names |->
           CHOOSE i \in DOMAIN setBy :
               /\ n \in setBy[i]
               /\ \A j \in DOMAIN setBy : n \in setBy[j] => j <= i]

DefaultImportName(lineText) == SingleImportName(DefaultImportPattern, lineText)

NamespaceImportName(lineText) == SingleImportName(NamespaceImportPattern, lineText)

RequireImportName(lineText) == SingleImportName(RequirePattern, lineText)

CategorizeImports(doc) ==
    LET scanned == 0..(Min(ImportScanLimit, LineCount(doc)) - 1)
    IN [namedImports |-> LastSetter([i \in scanned |-> NamedImportNames(LineAt(doc, i))]),
        defaultImports |-> LastSetter([i \in scanned |-> DefaultImportName(LineAt(doc, i))]),
        namespaceImports |->
            LastSetter([i \in scanned |-> NamespaceImportName(LineAt(doc, i))]),
        requireImports |-> LastSetter([i \in scanned |-> RequireImportName(LineAt(doc, i))])]

Lookup(map, identifier) ==
    IF identifier \in DOMAIN map THEN {map[identifier]} ELSE {}

FindImportForIdentifier(identifier, importGroups) ==
    Lookup(importGroups.namedImports, identifier)
        \cup Lookup(importGroups.defaultImports, identifier)
        \cup Lookup(importGroups.namespaceImports, identifier)
        \cup Lookup(importGroups.requireImports, identifier)

IsReExport(lineText) ==
    \/ Test(Lit("export") \o Ws \o Lit("{"), lineText)
    \/ Test(Lit("export") \o Ws \o Lit("*"), lineText)

FindReExports(doc, identifiers) ==
    {i \in 0..(LineCount(doc) - 1) :
        /\ IsReExport(LineAt(doc, i))
        /\ \E k \in DOMAIN identifiers : Includes(LineAt(doc, i), identifiers[k])}

\* the lines enhancedImportAnalysis adds to relatedLines
EnhancedImportAnalysis(doc, targetLineText) ==
    LET identifiers == ExtractAllIdentifiers(targetLineText)
        importGroups == CategorizeImports(doc)
    IN UNION {FindImportForIdentifier(identifiers[k], importGroups) : k \in DOMAIN identifiers}
           \cup FindReExports(doc, identifiers)

(***************************************************************************)
(* findClassMemberRelationships                                            *)
(***************************************************************************)
\* for (let i = 0; i < document.lineCount; i++) { if (...) { start = i; break } }:
\* of the lines that satisfy the condition the scan stops at the least, -1
\* stands for none
FirstLineFrom(lines) ==
    IF lines = {} THEN -1 ELSE CHOOSE i \in lines : \A j \in lines : i <= j

FindClassBoundaries(doc, className) ==
    LET IsDeclaration(lineText) ==
            Test(Lit("class") \o Ws1 \o Interp(className) \o Wb, lineText)
        start == FirstLineFrom({i \in 0..(LineCount(doc) - 1) : IsDeclaration(LineAt(doc, i))})
        close == ClosingLine(doc, start, 0, FALSE)
    IN IF start = -1 THEN [start |-> -1, end |-> -1]
       ELSE IF close # -1 THEN [start |-> start, end |-> close]
       ELSE [start |-> start, end |-> LineCount(doc) - 1]

MemberNamePatterns ==
    << Lit("this.") \o IdGroup,
       Lit("self.") \o IdGroup,
       IdGroup \o Ws \o Lit("(") >>

ExtractMemberNames(lineText) ==
    Dedupe(ConcatAll([k \in DOMAIN MemberNamePatterns |->
                         ExecAll(MemberNamePatterns[k], lineText, 0)]))

LineContainsMember(lineText, memberName) ==
    \/ Test(Wb \o Interp(memberName) \o Ws \o Lit("("), lineText)
    \/ Test(Wb \o Interp(memberName) \o Ws \o Lit(":"), lineText)
    \/ Test(Wb \o Lit("this.") \o Interp(memberName) \o Wb, lineText)
    \/ Test(Wb \o Lit("self.") \o Interp(memberName) \o Wb, lineText)
    \/ Test(Wb \o Interp(memberName) \o Ws \o Lit("="), lineText)

IsConstructorLine(lineText) ==
    \/ Test(Lit("constructor") \o Ws \o Lit("("), lineText)
    \/ Test(Lit("__init__") \o Ws \o Lit("("), lineText)
    \/ Test(Lit("def") \o Ws1 \o Lit("__init__") \o Ws \o Lit("("), lineText)

FindConstructor(doc, classBoundaries) ==
    LET lines == {i \in classBoundaries.start..classBoundaries.end :
                      IsConstructorLine(LineAt(doc, i))}
    IN IF lines = {} THEN -1 ELSE CHOOSE i \in lines : \A j \in lines : i <= j

\* a findClassMemberRelationships that adds what findConstructor returned
\* without looking at it: -1 when the class has no constructor
ClassMembersWithUncheckedConstructor(doc, targetLine, targetLineText) ==
    LET class == FindContainingClass(doc, targetLine)
        classBoundaries == FindClassBoundaries(doc, class.name)
        memberNames == ExtractMemberNames(targetLineText)
        constructorLine == FindConstructor(doc, classBoundaries)
    IN IF ~class.found THEN {}
       ELSE IF classBoundaries.start = -1 \/ classBoundaries.end = -1 THEN {}
       ELSE {i \in classBoundaries.start..classBoundaries.end :
                /\ i # targetLine
                /\ \E k \in DOMAIN memberNames :
                       LineContainsMember(LineAt(doc, i), memberNames[k])}
            \cup {classBoundaries.start}
            \cup {constructorLine}

\* the lines findClassMemberRelationships adds to relatedLines
FindClassMemberRelationships(doc, targetLine, targetLineText) ==
    LET class == FindContainingClass(doc, targetLine)
        classBoundaries == FindClassBoundaries(doc, class.name)
        memberNames == ExtractMemberNames(targetLineText)
        constructorLine == FindConstructor(doc, classBoundaries)
    IN IF ~class.found THEN {}
       ELSE IF classBoundaries.start = -1 \/ classBoundaries.end = -1 THEN {}
       ELSE {i \in classBoundaries.start..classBoundaries.end :
                /\ i # targetLine
                /\ \E k \in DOMAIN memberNames :
                       LineContainsMember(LineAt(doc, i), memberNames[k])}
            \cup {classBoundaries.start}
            \cup (IF constructorLine # -1 THEN {constructorLine} ELSE {})

(***************************************************************************)
(* buildCodeContext                                                        *)
(***************************************************************************)
\* the six importPatterns; of the three quote characters of the second one the
\* back quote is left out: no line of the model holds it
IsImportStatement(lineText) ==
    \/ Test(Bol \o Ws \o Lit("import") \o Ws1, lineText)
    \/ Test(Bol \o Ws \o Lit("from") \o Ws1 \o Set({"'", "\""}), lineText)
    \/ Test(Bol \o Ws \o Lit("const") \o Ws1 \o AnyStar \o Lit("=") \o Ws \o Lit("require("),
            lineText)
    \/ Test(Bol \o Ws \o Lit("#include") \o Ws \o Lit("<"), lineText)
    \/ Test(Bol \o Ws \o Lit("using") \o Ws1, lineText)
    \/ Test(Bol \o Ws \o Lit("from") \o Ws1 \o Plus(WordChars) \o Ws1 \o Lit("import"),
            lineText)

\* the context is built from the lines within this distance of the target
ContextRadius == 5

\* the imports of the context come from this many lines at the top of the file
ContextImportLimit == 50

RECURSIVE ContextVariables(_, _, _)
\* the names declared on lines i..endLine, each once, in the order met
ContextVariables(doc, i, endLine) ==
    IF i > endLine THEN <<>>
    ELSE ExecAll(VariablePatterns[1], LineAt(doc, i), 0) \o ContextVariables(doc, i + 1, endLine)

RECURSIVE ContextImports(_, _, _)
ContextImports(doc, i, limit) ==
    IF i >= limit THEN <<>>
    ELSE (IF IsImportStatement(LineAt(doc, i)) THEN <<Trim(LineAt(doc, i))>> ELSE <<>>)
             \o ContextImports(doc, i + 1, limit)

\* the CodeContext of a target line; every document of the model is TypeScript
BuildCodeContext(doc, targetLine) ==
    [functionName |-> FindContainingFunction(doc, targetLine),
     className |-> FindContainingClass(doc, targetLine),
     variables |-> Dedupe(ContextVariables(doc, Max(0, targetLine - ContextRadius),
                                           Min(LineCount(doc) - 1, targetLine + ContextRadius))),
     imports |-> ContextImports(doc, 0, Min(ContextImportLimit, LineCount(doc))),
     language |-> "typescript"]

(***************************************************************************)
(* findRelatedLines: the five finders in the order they are called         *)
(***************************************************************************)
Finders ==
    << "findVariableRelationships", "findFunctionRelationships",
       "enhancedControlFlowAnalysis", "enhancedImportAnalysis",
       "findClassMemberRelationships" >>

\* the lines one finder adds to relatedLines when the accessor delivers every line
FinderLines(finder, doc, targetLine, targetLineText) ==
    CASE finder = "findVariableRelationships" ->
             FindVariableRelationships(doc, targetLine, targetLineText)
      [] finder = "findFunctionRelationships" ->
             FindFunctionRelationships(doc, targetLine, targetLineText)
      [] finder = "enhancedControlFlowAnalysis" ->
             EnhancedControlFlowAnalysis(doc, targetLine)
      [] finder = "enhancedImportAnalysis" ->
             EnhancedImportAnalysis(doc, targetLineText)
      [] finder = "findClassMemberRelationships" ->
             FindClassMemberRelationships(doc, targetLine, targetLineText)

\* whether the finder calls document.lineAt at all; each finder makes its first
\* call before it adds its first line
FinderReadsDocument(finder, doc, targetLine, targetLineText) ==
    CASE finder = "findVariableRelationships" -> LineCount(doc) > 1
      [] finder = "findFunctionRelationships" ->
             SearchedFunctionNames(targetLineText) # {} /\ LineCount(doc) > 1
      [] finder = "enhancedControlFlowAnalysis" -> TRUE
      [] finder = "enhancedImportAnalysis" -> LineCount(doc) > 0
      [] finder = "findClassMemberRelationships" -> targetLine > 0

RECURSIVE SortAsStrings(_)
\* Array.from(relatedLines).sort() without a compare function: the elements
\* are ordered as strings, "12" before "3" (line numbers below 100)
SortAsStrings(lines) ==
    IF lines = {} THEN <<>>
    ELSE LET Key(n) == IF n < 10 THEN n * 100 ELSE (n \div 10) * 100 + (n % 10) + 1
             least == CHOOSE i \in lines : \A j \in lines : Key(i) <= Key(j)
         IN <<least>> \o SortAsStrings(lines \ {least})

RECURSIVE SortAscending(_)
\* Array.from(relatedLines).sort((a, b) => a - b)
SortAscending(lines) ==
    IF lines = {} THEN <<>>
    ELSE LET least == CHOOSE i \in lines : \A j \in lines : i <= j
         IN <<least>> \o SortAscending(lines \ {least})

(***************************************************************************)
(* The documents the analyzer is called on.                                *)
(***************************************************************************)
\* the sample code of the analyzer's test suite
SampleCode ==
    << "import React from \"react\";",
       "import { useState } from \"react\";",
       "",
       "class TestClass {",
       "  constructor() {",
       "    this.value = 0;",
       "  }",
       "",
       "  testMethod() {",
       "    const x = 5;",
       "    const y = 10;",
       "    if (x > 0) {",
       "      console.log(x + y);",
       "      this.value = x;",
       "    }",
       "    return this.value;",
       "  }",
       "}",
       "",
       "function testFunction() {",
       "  const instance = new TestClass();",
       "  return instance.testMethod();",
       "}" >>

\* two declarations and a call that uses both variables as arguments
ArgumentsCode == << "const x = 5;", "let y = 10;", "console.log(x + y);" >>

\* a function declared on two lines (overload signatures) and called
OverloadsCode ==
    << "function foo(a: string): void;",
       "function foo(a: number): void;",
       "foo(1);",
       "const $run = function () {",
       "  return $run();",
       "};" >>

\* a try block on lines 3-8 with its catch header on line 6
TryCatchCode ==
    << "function load() {",
       "  let data;",
       "  init();",
       "  try {",
       "    data = read();",
       "    parse(data);",
       "  } catch (e) {",
       "    report(e);",
       "  }",
       "}" >>

\* an interface and a type alias with members
InterfaceCode ==
    << "interface Shape {",
       "  area(): number;",
       "}",
       "type Point = {",
       "  x: number;",
       "};" >>

\* a class whose name is mentioned above its declaration
CommentedClassCode ==
    << "// class Foo wraps a value",
       "class Foo {",
       "  constructor() {",
       "    this.v = 1;",
       "  }",
       "  get() {",
       "    return this.v;",
       "  }",
       "}" >>

\* a function that returns a value computed on the line above
ReturnCode ==
    << "function add(a, b) {",
       "  const sum = (a + b);",
       "  return sum;",
       "}" >>

\* imports of every shape, a re-export and lines that use the bindings
ImportCode ==
    << "import { Foo } from \"mod\";",
       "import Bar from \"bar\";",
       "import * as ns from \"ns\";",
       "const fs = require(\"fs\");",
       "import { Widget as Baz } from \"other\";",
       "export { Foo };",
       "new Foo();",
       "Bar.run(ns.x, fs[0]);",
       "return Baz;",
       "const fs = require(\"fs-extra\");" >>

\* nested conditionals: one closed on its own line, one followed by else if
\* and else
ConditionalCode ==
    << "function pick(a, b) {",
       "  if (a > b) {",
       "    if (a > 0) { return a; }",
       "    return b;",
       "  } else if (b > 0) {",
       "    return 0;",
       "  } else {",
       "    return 1;",
       "  }",
       "}" >>

\* a class, a method and a conditional that the document never closes
UnclosedCode ==
    << "class Foo {",
       "  bar(x) {",
       "    if (x) {",
       "      this.bar(0);" >>

\* a switch with two case labels and a default label
SwitchCode ==
    << "function name(kind) {",
       "  switch (kind) {",
       "    case 1:",
       "      return \"one\";",
       "    case 2:",
       "      return \"two\";",
       "    default:",
       "      return \"many\";",
       "  }",
       "}" >>

\* two loops, each with break or continue lines of its own
LoopCode ==
    << "function scan(items) {",
       "  for (const item of items) {",
       "    if (item < 0) {",
       "      continue;",
       "    }",
       "    if (item > 9) break;",
       "  }",
       "  while (items.length) {",
       "    items.pop();",
       "    break;",
       "  }",
       "}" >>

\* a loop that holds a closed inner loop and, after it, a break of its own
NestedLoopCode ==
    << "for (const row of rows) {",
       "  while (row.length) {",
       "    row.pop();",
       "  }",
       "  break;",
       "}" >>

\* an if with an empty body, an else if on a line of its own, an else behind a
\* closing brace and an else after a statement
ElseCode ==
    << "if (ready) {",
       "  // nothing to do",
       "}",
       "else if (late) {",
       "",
       "} else {",
       "  stop();",
       "}",
       "else {",
       "}" >>

\* an assignment to a variable with a $ inside its name, and a use of it
DollarCode == << "row$id = 7;", "send(row$id);" >>

ScenarioDocuments ==
    {SampleCode, ArgumentsCode, OverloadsCode, TryCatchCode, InterfaceCode,
     CommentedClassCode, ReturnCode, ImportCode, ConditionalCode, UnclosedCode,
     SwitchCode, LoopCode, NestedLoopCode, ElseCode, DollarCode}

\* the lines short documents are made of
ShortLines ==
    {"function foo() {", "foo();", "}", "class Foo {", "return new Foo();",
     "import { Foo } from \"m\";"}

\* short documents have up to this many lines
MaxLines == 2

ShortDocuments == UNION {[1..n -> ShortLines] : n \in 1..MaxLines}

Documents == ScenarioDocuments \cup ShortDocuments

\* the CodeContext buildCodeContext returns for a target line of a document
CodeContextOf(doc, t) == BuildCodeContext(doc, t)

\* the lines finder k adds for a target line of a document
LinesAdded(k, doc, t) == FinderLines(Finders[k], doc, t, LineAt(doc, t))

\* whether finder k calls the accessor for a target line of a document
ReadsDocument(k, doc, t) == FinderReadsDocument(Finders[k], doc, t, LineAt(doc, t))

(***************************************************************************)
(* The service as a state machine: one call at a time, each call a         *)
(* sequence of steps through analyzeCodeSelection and findRelatedLines.    *)
(***************************************************************************)
VARIABLES
    document,      \* the lines of the document of the call in progress
    selection,     \* analyzeCodeSelection's selection: its start and end line
    targetLine,    \* findRelatedLines' targetLine
    caller,        \* who called findRelatedLines
    pc,            \* the step the call is at
    relatedLines,  \* findRelatedLines' Set<number>
    added,         \* per finder, the lines it has added to relatedLines
    thrown,        \* the error the document accessor raised in this call, if any
    warnings,      \* what console.warn was called with
    result,        \* the array findRelatedLines returned
    analysis,      \* analyzeCodeSelection's selectedLine, relatedLines and context
    outcome,       \* what the caller got: an array, a CodeAnalysisResult or an error
    earlier        \* an earlier findRelatedLines call on this service and what it gave

\* ExtensionErrorHandler.retryWithBackoff
VARIABLES
    retryPc,       \* the step the retryWithBackoff call is at
    maxRetries,    \* its parameter maxRetries
    attempt,       \* its loop variable
    lastError,     \* its local lastError
    invocations,   \* how each invocation of the operation ended, in order
    sleeps,        \* the milliseconds this.sleep was called with, in order
    channel,       \* the lines appended to the output channel
    retryOutcome   \* what retryWithBackoff returned or threw

\* SelectionHandler: the debounce of selection changes
VARIABLES
    now,                     \* the time, in milliseconds
    events,                  \* the selection-change events delivered so far
    timers,                  \* the timeouts that are set and have not fired
    debounceTimer,           \* SelectionHandler.debounceTimer
    isProcessing,            \* SelectionHandler.isProcessing
    lastProcessedSelection,  \* SelectionHandler.lastProcessedSelection
    handed,                  \* the calls of handleSelectionChange, in order
    disposed,                \* dispose() was called
    inFlight                 \* the explanation requests started and not yet delivered

\* CodeExplanationWebview: the explanation shown and the explanation history
VARIABLES
    explanationHistory,  \* CodeExplanationWebview._explanationHistory
    currentExplanation,  \* _currentExplanation
    currentState,        \* _currentState
    viewResolved,        \* _view is set
    posted,              \* the last message posted to the webview
    workspaceState,      \* what _saveState stored under aiCodeExplanation.webviewState
    updates,             \* the updateContent calls made by the extension so far
    everAdded,           \* the items added to the history since it was last cleared
    lastUpdate           \* the arguments of the latest call of updateContent

\* IntegrationService.processCodeExplanation
VARIABLES
    processPc,        \* where the call of processCodeExplanation is
    runs,             \* the calls of processCodeExplanation so far
    analysisOutcome,  \* how codeAnalysis.analyzeCodeSelection ended in this call
    apiOutcome,       \* how errorHandler.retryWithBackoff ended in this call
    uiOutcome,        \* how webviewProvider.updateContent ended in this call
    processResult     \* what the promise of processCodeExplanation settled with

\* the extension module: activate, deactivate, getExtensionStatus
VARIABLES
    globals,       \* for each global of the module, whether it holds an object
    activatePc,    \* where the pending call of activate is
    lifecycle      \* the calls of activate and deactivate so far and how they ended

\* CodeDecorationManager
VARIABLES
    currentDecorations,   \* for each editor, its entry in the map currentDecorations
    highlighted           \* the arguments of highlightLines, if it was the latest call

\* SelectionHandler: the explanation requests and what the webview shows of them
VARIABLES
    requests,   \* the calls of generateExplanationForSelection that have not ended
    started,    \* the number of calls of generateExplanationForSelection so far
    shown       \* the request whose notice or outcome the webview shows, and its kind

analyzerVars ==
    << document, selection, targetLine, caller, pc, relatedLines, added, thrown,
       warnings, result, analysis, outcome, earlier >>

retryVars ==
    << retryPc, maxRetries, attempt, lastError, invocations, sleeps, channel, retryOutcome >>

debounceVars ==
    << now, events, timers, debounceTimer, isProcessing, lastProcessedSelection, handed,
       disposed, inFlight >>

webviewVars ==
    << explanationHistory, currentExplanation, currentState, viewResolved, posted,
       workspaceState, updates, everAdded, lastUpdate >>

integrationVars ==
    << processPc, runs, analysisOutcome, apiOutcome, uiOutcome, processResult >>

extensionVars == << globals, activatePc, lifecycle >>

decorationVars == << currentDecorations, highlighted >>

requestVars == << requests, started, shown >>

vars ==
    << analyzerVars, retryVars, debounceVars, webviewVars, integrationVars, extensionVars,
       decorationVars, requestVars >>

\* what an action of the analyzer leaves alone
outsideAnalyzer == << retryVars, debounceVars, webviewVars, integrationVars, extensionVars,
       decorationVars, requestVars >>

\* what an action of retryWithBackoff leaves alone
outsideRetry == << analyzerVars, debounceVars, webviewVars, integrationVars, extensionVars,
       decorationVars, requestVars >>

\* what an action of the selection handler's debounce leaves alone
outsideDebounce == << analyzerVars, retryVars, webviewVars, integrationVars, extensionVars,
       decorationVars, requestVars >>

\* what an action of the webview provider leaves alone
outsideWebview == << analyzerVars, retryVars, debounceVars, integrationVars, extensionVars,
       decorationVars, requestVars >>

\* what an action of the integration service leaves alone, the webview apart
outsideIntegration ==
    << analyzerVars, retryVars, debounceVars, extensionVars, decorationVars, requestVars >>

\* what activate and deactivate leave alone
outsideExtension ==
    << analyzerVars, retryVars, debounceVars, webviewVars, integrationVars, decorationVars, requestVars >>

\* what the decoration manager leaves alone
outsideDecoration ==
    << analyzerVars, retryVars, debounceVars, webviewVars, integrationVars, extensionVars, requestVars >>

\* what a call of generateExplanationForSelection leaves alone, the webview
\* apart
outsideRequest ==
    << analyzerVars, retryVars, debounceVars, integrationVars, extensionVars,
       decorationVars >>

NoError == [name |-> "", message |-> "", lineNumber |-> -1]

\* what the accessor throws for a line number outside the document
IllegalLineError == [name |-> "Error", message |-> "Illegal value for line", lineNumber |-> -1]

\* what a failing document accessor throws (the test suite's errorDocument)
MockError == [name |-> "Error", message |-> "Mock error", lineNumber |-> -1]

NoContext ==
    [functionName |-> Undefined, className |-> Undefined, variables |-> <<>>,
     imports |-> <<>>, language |-> ""]

NoAnalysis == [selectedLine |-> "", relatedLines |-> <<>>, context |-> NoContext]

NoOutcome == [kind |-> "none", lines |-> <<>>, analysis |-> NoAnalysis, error |-> NoError]

NothingThrown == [by |-> "none", error |-> NoError]

NothingAdded == [k \in 1..Len(Finders) |-> {}]

\* no earlier call is remembered
NoCall ==
    [document |-> <<>>, targetLine |-> -1, thrown |-> NothingThrown, outcome |-> NoOutcome,
     since |-> 0]

ValidLine(doc, i) == i >= 0 /\ i < LineCount(doc)

\* the errors a call of lineAt(i) can end in: the accessor's own for a line
\* outside the document, the test double's for any line
LineAtErrors(doc, i) ==
    (IF ValidLine(doc, i) THEN {} ELSE {IllegalLineError}) \cup {MockError}

\* an AnalysisError that carried the line the selection ends on
AnalysisErrorAtSelectionEnd(error, sel) ==
    [name |-> "AnalysisError",
     message |-> "Failed to analyze code selection: " \o error.message,
     lineNumber |-> sel.end]

\* new AnalysisError(`Failed to analyze code selection: ${error.message}`, selection.start.line)
AnalysisError(error, sel) ==
    [name |-> "AnalysisError",
     message |-> "Failed to analyze code selection: " \o error.message,
     lineNumber |-> sel.start]

(***************************************************************************)
(* retryWithBackoff: the errors and results of the operation it is given   *)
(***************************************************************************)
MAX_RETRIES == 3

BASE_DELAY == 1000

\* the largest maxRetries a caller passes
MaxRetriesPassed == 4

\* lastError before its first assignment; no error thrown
NoFailure == [class |-> "none", message |-> "", statusCode |-> 0, retryable |-> FALSE, code |-> ""]

\* new ApiError(message, statusCode, retryable)
ApiError(message, statusCode, retryable) ==
    [class |-> "ApiError", message |-> message, statusCode |-> statusCode,
     retryable |-> retryable, code |-> ""]

\* new ConfigurationError(message, code)
ConfigurationError(message, code) ==
    [class |-> "ConfigurationError", message |-> message, statusCode |-> 0,
     retryable |-> FALSE, code |-> code]

\* new Error(message): any error that is neither of the two
PlainError(message) ==
    [class |-> "Error", message |-> message, statusCode |-> 0, retryable |-> FALSE, code |-> ""]

\* an error thrown by the Gemini client library: status is 0 when the error
\* has no status
GeminiError(status, message) == [status |-> status, message |-> message]

\* the failures of client.models.generateContent
GeminiErrors ==
    {GeminiError(status, "failed") : status \in {400, 401, 403, 404, 429, 500, 502, 503, 504}}
        \cup {GeminiError(0, "network timeout"), GeminiError(0, "socket hang up")}

\* a handleApiError for which a rate limit is final
HandleApiErrorWithFinalRateLimit(error) ==
    IF error.status # 0
    THEN CASE error.status = 400 -> ApiError("Invalid request to Gemini API", 400, FALSE)
           [] error.status = 401 -> ApiError("Invalid or expired API key", 401, FALSE)
           [] error.status = 403 ->
                  ApiError("API key does not have permission to access Gemini", 403, FALSE)
           [] error.status = 429 ->
                  ApiError("Rate limit exceeded. Please try again later", 429, FALSE)
           [] error.status \in {500, 502, 503, 504} ->
                  ApiError("Gemini API is temporarily unavailable", error.status, TRUE)
           [] OTHER -> ApiError("Gemini API error: " \o error.message, error.status, FALSE)
    ELSE ApiError(error.message, 0,
                  \/ Includes(error.message, "network")
                  \/ Includes(error.message, "timeout")
                  \/ Includes(error.message, "ECONNRESET"))

\* handleApiError(error) for an error that is not an ApiError: the ApiError it
\* throws
HandleApiError(error) ==
    IF error.status # 0
    THEN CASE error.status = 400 -> ApiError("Invalid request to Gemini API", 400, FALSE)
           [] error.status = 401 -> ApiError("Invalid or expired API key", 401, FALSE)
           [] error.status = 403 ->
                  ApiError("API key does not have permission to access Gemini", 403, FALSE)
           [] error.status = 429 ->
                  ApiError("Rate limit exceeded. Please try again later", 429, TRUE)
           [] error.status \in {500, 502, 503, 504} ->
                  ApiError("Gemini API is temporarily unavailable", error.status, TRUE)
           [] OTHER -> ApiError("Gemini API error: " \o error.message, error.status, FALSE)
    ELSE ApiError(error.message, 0,
                  \/ Includes(error.message, "network")
                  \/ Includes(error.message, "timeout")
                  \/ Includes(error.message, "ECONNRESET"))

\* what explainCode rejects with when generateContent fails
ExplainCodeErrors == {HandleApiError(error) : error \in GeminiErrors}

\* the errors the operation rejects with: those of the unit test's operations
\* and those of explainCode
OperationErrors ==
    { ApiError("Temporary error", 500, TRUE),
      ApiError("Invalid API key", 401, FALSE),
      ConfigurationError("Missing config", "MISSING_CONFIG"),
      PlainError("Network error") } \cup ExplainCodeErrors

Resolved(value) == [ok |-> TRUE, value |-> value, error |-> NoFailure]

Rejected(error) == [ok |-> FALSE, value |-> "", error |-> error]

\* how one invocation of the operation can end
OperationResults == {Resolved("success")} \cup {Rejected(error) : error \in OperationErrors}

NoRetryOutcome == [kind |-> "none", value |-> "", error |-> NoFailure]

\* no retryWithBackoff call in progress
RetryIdle ==
    /\ retryPc = "idle"
    /\ maxRetries = MAX_RETRIES
    /\ attempt = 0
    /\ lastError = NoFailure
    /\ invocations = <<>>
    /\ sleeps = <<>>
    /\ channel = <<>>
    /\ retryOutcome = NoRetryOutcome

(***************************************************************************)
(* SelectionHandler: the debounce timer                                    *)
(***************************************************************************)
\* private readonly debounceDelay = 500
debounceDelay == 500

\* debounceTimer: NodeJS.Timeout | undefined, before the first setTimeout
NoTimeout == 0

\* a handler that has seen no selection change
DebounceIdle ==
    /\ now = 0
    /\ events = <<>>
    /\ timers = {}
    /\ debounceTimer = NoTimeout
    /\ isProcessing = FALSE
    /\ lastProcessedSelection = ""
    /\ handed = <<>>
    /\ disposed = FALSE
    /\ inFlight = {}

(***************************************************************************)
(* CodeExplanationWebview: its fields                                      *)
(***************************************************************************)
\* private _maxHistoryItems: number = 10
maxHistoryItems == 10

\* no message posted to the webview yet
NoMessage == [type |-> "none", hasHistory |-> FALSE]

\* workspaceState holds nothing under aiCodeExplanation.webviewState
NoSavedState == [saved |-> FALSE, currentState |-> "", currentExplanation |-> "",
                 explanationHistory |-> <<>>]

\* updateContent has not been called
NoUpdate == [called |-> FALSE, explanation |-> "", codeSnippet |-> "", language |-> ""]

\* a provider constructed in a workspace without saved state
WebviewNew ==
    /\ explanationHistory = <<>>
    /\ currentExplanation = ""
    /\ currentState = "welcome"
    /\ viewResolved = FALSE
    /\ posted = NoMessage
    /\ workspaceState = NoSavedState
    /\ updates = 0
    /\ everAdded = <<>>
    /\ lastUpdate = NoUpdate

(***************************************************************************)
(* IntegrationService: the results of its three steps                      *)
(***************************************************************************)
\* the largest number of processCodeExplanation calls
MaxRuns == 2

\* new AnalysisError(message, lineNumber)
NewAnalysisError(message, lineNumber) ==
    [class |-> "AnalysisError", message |-> message, statusCode |-> 0, retryable |-> FALSE,
     code |-> "", lineNumber |-> lineNumber]

\* a CodeAnalysisResult, as far as the service looks at it
CodeAnalysisResult(selectedLine, related, language) ==
    [selectedLine |-> selectedLine, relatedLines |-> related, language |-> language]

NoAnalysisResult == CodeAnalysisResult("", <<>>, "")

AnalysisResolved(analysisResult) ==
    [ok |-> TRUE, analysisResult |-> analysisResult, error |-> NoFailure]

AnalysisRejected(error) == [ok |-> FALSE, analysisResult |-> NoAnalysisResult, error |-> error]

\* analyzeCodeSelection has not been called in this call
NoAnalysisOutcome == [ok |-> FALSE, analysisResult |-> NoAnalysisResult, error |-> NoFailure]

\* how analyzeCodeSelection can end: with a result, complete or not, with the
\* AnalysisError of the service or of the unit test, or with another error
AnalysisOutcomes ==
    { AnalysisResolved(CodeAnalysisResult("const x = 5;", <<>>, "javascript")),
      AnalysisResolved(CodeAnalysisResult("  return x + y;",
                                          <<"  const y = 2;", "", "  return x + y;">>,
                                          "typescript")),
      AnalysisResolved(CodeAnalysisResult("   ", <<>>, "javascript")),
      AnalysisResolved(CodeAnalysisResult("const x = 5;", <<>>, "")),
      AnalysisRejected(NewAnalysisError("Parse error", 5)),
      AnalysisRejected(NewAnalysisError(
          "Failed to analyze code selection: Illegal value for line", 0)),
      AnalysisRejected(PlainError("Mock error")) }

\* what explainCode resolves with
ExplainCodeResponses == {"This line declares the constant x.", "x = 5"}

\* retryWithBackoff has not been called in this call
NoApiOutcome == [ok |-> FALSE, value |-> "", error |-> NoFailure]

\* webviewProvider.updateContent(...): it returns or, as the unit test's
\* mock, throws
UiOutcomes == {"updated", "UI update failed"}

\* the promise of processCodeExplanation is pending
NoProcessResult == [settled |-> "pending", success |-> FALSE, explanation |-> "", error |-> ""]

\* a service on which processCodeExplanation has not been called
IntegrationIdle ==
    /\ processPc = "idle"
    /\ runs = 0
    /\ analysisOutcome = NoAnalysisOutcome
    /\ apiOutcome = NoApiOutcome
    /\ uiOutcome = "none"
    /\ processResult = NoProcessResult

(***************************************************************************)
(* The extension module: its global state                                  *)
(***************************************************************************)
\* the largest number of activate and deactivate calls
MaxLifecycleCalls == 4

\* the services deactivate disposes of, in its order
DisposedServices ==
    << "selectionHandler", "commandManager", "decorationManager", "geminiClient",
       "errorHandler", "webviewProvider" >>

\* let extensionContext, outputChannel, webviewProvider, ...
GlobalNames ==
    {"extensionContext", "outputChannel", "codeAnalysis", "configManager"}
        \cup Range(DisposedServices)

\* the module has been loaded: no global has been assigned
ExtensionLoaded ==
    /\ globals = [name \in GlobalNames |-> FALSE]
    /\ activatePc = "idle"
    /\ lifecycle = <<>>

(***************************************************************************)
(* CodeDecorationManager: editors and the map currentDecorations           *)
(***************************************************************************)
\* the largest number of lines passed to a highlighting method
MaxHighlighted == 3

Editors == {"a.ts", "b.ts"}

\* editor.document, as its lines
EditorDocument(editor) ==
    IF editor = "a.ts" THEN <<"const x = 1;", "return x;">> ELSE <<"export {};">>

\* the line numbers a caller passes for an editor: those of its document and
\* one outside of it, after its last line or before its first
LineNumbers(editor) ==
    IF editor = "a.ts" THEN 0..Len(EditorDocument(editor))
    ELSE -1..(Len(EditorDocument(editor)) - 1)

\* lines: number[]
LineLists(editor) ==
    UNION {[1..n -> LineNumbers(editor)] : n \in 0..MaxHighlighted}

\* the map has no entry for the editor
NoDecorations == [has |-> FALSE, selectedLine |-> <<>>, relatedLines |-> <<>>]

\* highlightLines was not the latest call
NoHighlight == [editor |-> "", lines |-> <<>>]

\* a new CodeDecorationManager
DecorationsNew ==
    /\ currentDecorations = [editor \in Editors |-> NoDecorations]
    /\ highlighted = NoHighlight

\* the webview shows nothing of any request
NoRequestShown == [request |-> 0, kind |-> "none"]

\* a selection handler that has started no request
RequestsIdle ==
    /\ requests = {}
    /\ started = 0
    /\ shown = NoRequestShown

Init ==
    /\ RequestsIdle
    /\ RetryIdle
    /\ DecorationsNew
    /\ ExtensionLoaded
    /\ IntegrationIdle
    /\ DebounceIdle
    /\ WebviewNew
    /\ document = <<>>
    /\ selection = [start |-> -1, end |-> -1]
    /\ targetLine = -1
    /\ caller = "none"
    /\ pc = "idle"
    /\ relatedLines = {}
    /\ added = NothingAdded
    /\ thrown = NothingThrown
    /\ warnings = <<>>
    /\ result = <<>>
    /\ analysis = NoAnalysis
    /\ outcome = NoOutcome
    /\ earlier = NoCall

\* a caller (the selection handler) asks for the lines related to a line
CallFindRelatedLines ==
    /\ pc = "idle"
    /\ \E doc \in Documents : \E t \in 0..LineCount(doc) :
           /\ document' = doc
           /\ targetLine' = t
    /\ caller' = "external"
    /\ pc' = "findRelatedLines"
    /\ UNCHANGED << selection, relatedLines, added, thrown, warnings, result, analysis,
                    outcome >>
    /\ UNCHANGED earlier
    /\ UNCHANGED outsideAnalyzer

\* a caller asks for the analysis of a selection
CallAnalyzeCodeSelection ==
    /\ pc = "idle"
    /\ \E doc \in Documents : \E start \in 0..LineCount(doc) : \E end \in {start, start + 1} :
           /\ document' = doc
           /\ selection' = [start |-> start, end |-> end]
    /\ caller' = "analyzeCodeSelection"
    /\ pc' = "analyzeCodeSelection"
    /\ UNCHANGED << targetLine, relatedLines, added, thrown, warnings, result, analysis,
                    outcome >>
    /\ UNCHANGED earlier
    /\ UNCHANGED outsideAnalyzer

\* the catch block of analyzeCodeSelection: the call ends in an AnalysisError
RejectAnalysis(step, error) ==
    /\ thrown' = [by |-> step, error |-> error]
    /\ outcome' = [NoOutcome EXCEPT !.kind = "error", !.error = AnalysisError(error, selection)]
    /\ pc' = "done"

\* const selectedLine = document.lineAt(selection.start.line).text
ReadSelectedLine ==
    /\ pc = "analyzeCodeSelection"
    /\ \/ /\ ValidLine(document, selection.start)
          /\ analysis' = [analysis EXCEPT !.selectedLine = LineAt(document, selection.start)]
          /\ targetLine' = selection.start
          /\ pc' = "findRelatedLines"
          /\ UNCHANGED << thrown, outcome >>
       \/ /\ \E error \in LineAtErrors(document, selection.start) :
                 RejectAnalysis("selectedLine", error)
          /\ UNCHANGED << analysis, targetLine >>
    /\ UNCHANGED << document, selection, caller, relatedLines, added, warnings, result >>
    /\ UNCHANGED earlier
    /\ UNCHANGED outsideAnalyzer

\* a findRelatedLines that left out `relatedLines.add(targetLine)`
WithoutTargetLine(lines, line) == lines

\* relatedLines.add(targetLine): "Always include the target line"
WithTargetLine(lines, line) == lines \cup {line}

\* the head of findRelatedLines, outside its try block: the target line is read
\* and added; an error of the accessor leaves findRelatedLines as it is
ReadTargetLine ==
    /\ pc = "findRelatedLines"
    /\ \/ /\ ValidLine(document, targetLine)
          /\ relatedLines' = WithTargetLine(relatedLines, targetLine)
          /\ pc' = Finders[1]
          /\ UNCHANGED << thrown, outcome >>
       \/ /\ \E error \in LineAtErrors(document, targetLine) :
                 IF caller = "analyzeCodeSelection"
                 THEN RejectAnalysis("targetLineText", error)
                 ELSE /\ thrown' = [by |-> "targetLineText", error |-> error]
                      /\ outcome' = [NoOutcome EXCEPT !.kind = "error", !.error = error]
                      /\ pc' = "done"
          /\ UNCHANGED relatedLines
    /\ UNCHANGED << document, selection, targetLine, caller, added, warnings, result,
                    analysis >>
    /\ UNCHANGED earlier
    /\ UNCHANGED outsideAnalyzer

\* where findRelatedLines goes on after finder k has returned
AfterFinder(k) == IF k < Len(Finders) THEN Finders[k + 1] ELSE "return"

\* finder k runs to its end and adds its lines
RunFinder(k) ==
    /\ pc = Finders[k]
    /\ LET lines == LinesAdded(k, document, targetLine)
       IN /\ relatedLines' = relatedLines \cup lines
          /\ added' = [added EXCEPT ![k] = lines]
    /\ pc' = AfterFinder(k)
    /\ UNCHANGED << document, selection, targetLine, caller, thrown, warnings, result,
                    analysis, outcome >>
    /\ UNCHANGED earlier
    /\ UNCHANGED outsideAnalyzer

\* a findRelatedLines with one try block per finder: after finder k has thrown
\* the next finder runs
NextFinderAfterThrow(k) == IF k < Len(Finders) THEN Finders[k + 1] ELSE "return"

\* a findRelatedLines without a catch block: the error of finder k leaves the
\* call, nothing is returned
LeaveAfterThrow(k) == "done"

\* where findRelatedLines goes on after finder k has thrown: its catch block
AfterThrow(k) == "return"

\* the accessor fails while finder k runs: the finder throws at its first
\* lineAt call, the catch block of findRelatedLines logs a warning
FinderThrows(k) ==
    /\ pc = Finders[k]
    /\ ReadsDocument(k, document, targetLine)
    /\ thrown' = [by |-> Finders[k], error |-> MockError]
    /\ warnings' = Append(warnings, [line |-> targetLine, message |-> MockError.message])
    /\ pc' = AfterThrow(k)
    /\ UNCHANGED << document, selection, targetLine, caller, relatedLines, added, result,
                    analysis, outcome >>
    /\ UNCHANGED earlier
    /\ UNCHANGED outsideAnalyzer

\* return Array.from(relatedLines).sort((a, b) => a - b)
ReturnRelatedLines ==
    /\ pc = "return"
    /\ result' = SortAscending(relatedLines)
    /\ IF caller = "analyzeCodeSelection"
       THEN /\ pc' = "relatedText"
            /\ UNCHANGED outcome
       ELSE /\ pc' = "done"
            /\ outcome' = [NoOutcome EXCEPT !.kind = "array",
                                            !.lines = SortAscending(relatedLines)]
    /\ UNCHANGED << document, selection, targetLine, caller, relatedLines, added, thrown,
                    warnings, analysis >>
    /\ UNCHANGED earlier
    /\ UNCHANGED outsideAnalyzer

\* relatedLineNumbers.map(lineNum => document.lineAt(lineNum).text)
ReadRelatedText ==
    /\ pc = "relatedText"
    /\ \/ /\ \A k \in DOMAIN result : ValidLine(document, result[k])
          /\ analysis' = [analysis EXCEPT
                 !.relatedLines = [k \in DOMAIN result |-> LineAt(document, result[k])]]
          /\ pc' = "buildCodeContext"
          /\ UNCHANGED << thrown, outcome >>
       \/ /\ \E k \in DOMAIN result : \E error \in LineAtErrors(document, result[k]) :
                 RejectAnalysis("relatedLines", error)
          /\ UNCHANGED analysis
    /\ UNCHANGED << document, selection, targetLine, caller, relatedLines, added, warnings,
                    result >>
    /\ UNCHANGED earlier
    /\ UNCHANGED outsideAnalyzer

\* const context = await this.buildCodeContext(...); return {selectedLine, relatedLines, context}
BuildContext ==
    /\ pc = "buildCodeContext"
    /\ \/ /\ LET context == CodeContextOf(document, selection.start)
             IN /\ analysis' = [analysis EXCEPT !.context = context]
                /\ outcome' = [NoOutcome EXCEPT
                       !.kind = "analysis",
                       !.analysis = [analysis EXCEPT !.context = context]]
          /\ pc' = "done"
          /\ UNCHANGED thrown
       \/ /\ RejectAnalysis("context", MockError)
          /\ UNCHANGED analysis
    /\ UNCHANGED << document, selection, targetLine, caller, relatedLines, added, warnings,
                    result >>
    /\ UNCHANGED earlier
    /\ UNCHANGED outsideAnalyzer

\* a service that kept its Set<number> in a field: the lines of one call stay
\* in it for the next
DropLocalsKeepingLines ==
    /\ document' = <<>>
    /\ selection' = [start |-> -1, end |-> -1]
    /\ targetLine' = -1
    /\ caller' = "none"
    /\ pc' = "idle"
    /\ relatedLines' = relatedLines
    /\ added' = NothingAdded
    /\ thrown' = NothingThrown
    /\ warnings' = <<>>
    /\ result' = <<>>
    /\ analysis' = NoAnalysis
    /\ outcome' = NoOutcome

\* the parameters and locals of the call are gone: the service has no fields,
\* and the Set, the patterns and the arrays of a call are created in the call
DropLocals ==
    /\ document' = <<>>
    /\ selection' = [start |-> -1, end |-> -1]
    /\ targetLine' = -1
    /\ caller' = "none"
    /\ pc' = "idle"
    /\ relatedLines' = {}
    /\ added' = NothingAdded
    /\ thrown' = NothingThrown
    /\ warnings' = <<>>
    /\ result' = <<>>
    /\ analysis' = NoAnalysis
    /\ outcome' = NoOutcome

\* the caller has its answer; everything the call held is dropped
Finish ==
    /\ pc = "done"
    /\ DropLocals
    /\ UNCHANGED earlier
    /\ UNCHANGED outsideAnalyzer

Next ==
    \/ CallFindRelatedLines
    \/ CallAnalyzeCodeSelection
    \/ ReadSelectedLine
    \/ ReadTargetLine
    \/ \E k \in 1..Len(Finders) : RunFinder(k)
    \/ \E k \in 1..Len(Finders) : FinderThrows(k)
    \/ ReturnRelatedLines
    \/ ReadRelatedText
    \/ BuildContext
    \/ Finish

Spec == Init /\ [][Next]_vars

(***************************************************************************)
(* Repeated calls on one service instance: a caller calls findRelatedLines *)
(* again and again; one of the earlier calls is remembered with what it    *)
(* gave, and the calls made since then are counted.                        *)
(***************************************************************************)

\* the calls counted after the remembered one
MaxCallsBetween == 2

\* the documents of the repeated calls
RepeatDocuments == {OverloadsCode, UnclosedCode}

CallRepeated ==
    /\ pc = "idle"
    /\ \E doc \in RepeatDocuments : \E t \in 0..LineCount(doc) :
           /\ document' = doc
           /\ targetLine' = t
    /\ caller' = "external"
    /\ pc' = "findRelatedLines"
    /\ UNCHANGED << selection, relatedLines, added, thrown, warnings, result, analysis,
                    outcome, earlier >>
    /\ UNCHANGED outsideAnalyzer

\* the call has ended and is the one remembered from now on
RememberCall ==
    /\ pc = "done"
    /\ DropLocals
    /\ earlier' = [document |-> document, targetLine |-> targetLine, thrown |-> thrown,
                   outcome |-> outcome, since |-> 0]
    /\ UNCHANGED outsideAnalyzer

\* the call has ended; it is one more call since the remembered one
CountCall ==
    /\ pc = "done"
    /\ earlier.since < MaxCallsBetween
    /\ DropLocals
    /\ earlier' = IF earlier = NoCall THEN NoCall ELSE [earlier EXCEPT !.since = @ + 1]
    /\ UNCHANGED outsideAnalyzer

RepeatedNext ==
    \/ CallRepeated
    \/ ReadTargetLine
    \/ \E k \in 1..Len(Finders) : RunFinder(k)
    \/ \E k \in 1..Len(Finders) : FinderThrows(k)
    \/ ReturnRelatedLines
    \/ RememberCall
    \/ CountCall

RepeatedCalls == Init /\ [][RepeatedNext]_vars

(***************************************************************************)
(* ExtensionErrorHandler.retryWithBackoff(operation, maxRetries)           *)
(***************************************************************************)
\* 2^n, Math.pow(2, n)
RECURSIVE Pow2(_)
Pow2(n) == IF n <= 0 THEN 1 ELSE 2 * Pow2(n - 1)

\* a retryWithBackoff that retries whatever the error is
RetryEveryError(error) == TRUE

\* the two `throw error` of the catch block do not apply: the error is neither
\* an ApiError that is not retryable nor a ConfigurationError
IsRetried(error) ==
    /\ ~(error.class = "ApiError" /\ ~error.retryable)
    /\ ~(error.class = "ConfigurationError")

\* a loop that gives up one attempt early
LastAttemptOneEarly(n, retries) == n + 1 = retries

\* if (attempt === maxRetries) break
IsLastAttempt(n, retries) == n = retries

\* a delay that grows by BASE_DELAY with each attempt
LinearDelay(n) == BASE_DELAY * (n + 1)

\* ExtensionErrorHandler.BASE_DELAY * Math.pow(2, attempt)
BackoffDelay(n) == BASE_DELAY * Pow2(n)

\* a caller calls retryWithBackoff, with or without a maxRetries of its own
CallRetryWithBackoff ==
    /\ retryPc = "idle"
    /\ \E retries \in 0..MaxRetriesPassed : maxRetries' = retries
    /\ attempt' = 0
    /\ retryPc' = "operation"
    /\ UNCHANGED << lastError, invocations, sleeps, channel, retryOutcome >>
    /\ UNCHANGED outsideRetry

\* one pass of the loop: the operation is invoked and awaited; its value is
\* returned, or its error is caught and rethrown, or the loop is left, or the
\* failed attempt is logged and the sleep begins
InvokeOperation ==
    /\ retryPc = "operation"
    /\ attempt <= maxRetries
    /\ \E r \in OperationResults :
           /\ invocations' = Append(invocations, r)
           /\ IF r.ok
              THEN /\ retryOutcome' = [NoRetryOutcome EXCEPT !.kind = "value", !.value = r.value]
                   /\ retryPc' = "done"
                   /\ UNCHANGED << lastError, sleeps, channel >>
              ELSE /\ lastError' = r.error
                   /\ IF ~IsRetried(r.error) \/ IsLastAttempt(attempt, maxRetries)
                      THEN /\ retryOutcome' =
                                  [NoRetryOutcome EXCEPT !.kind = "error", !.error = r.error]
                           /\ retryPc' = "done"
                           /\ UNCHANGED << sleeps, channel >>
                      ELSE /\ channel' = Append(channel,
                                  [attempt |-> attempt + 1, delay |-> BackoffDelay(attempt),
                                   message |-> r.error.message])
                           /\ sleeps' = Append(sleeps, BackoffDelay(attempt))
                           /\ retryPc' = "sleep"
                           /\ UNCHANGED retryOutcome
    /\ UNCHANGED << maxRetries, attempt >>
    /\ UNCHANGED outsideRetry

\* the timer of sleep fires: attempt++, and the loop goes on while
\* attempt <= maxRetries; after the loop, throw lastError
SleepEnds ==
    /\ retryPc = "sleep"
    /\ attempt' = attempt + 1
    /\ IF attempt + 1 <= maxRetries
       THEN /\ retryPc' = "operation"
            /\ UNCHANGED retryOutcome
       ELSE /\ retryPc' = "done"
            /\ retryOutcome' = [NoRetryOutcome EXCEPT !.kind = "error", !.error = lastError]
    /\ UNCHANGED << maxRetries, lastError, invocations, sleeps, channel >>
    /\ UNCHANGED outsideRetry

\* the caller has the value or the error; the call's locals are gone
RetryEnds ==
    /\ retryPc = "done"
    /\ retryPc' = "idle"
    /\ maxRetries' = MAX_RETRIES
    /\ attempt' = 0
    /\ lastError' = NoFailure
    /\ invocations' = <<>>
    /\ sleeps' = <<>>
    /\ channel' = <<>>
    /\ retryOutcome' = NoRetryOutcome
    /\ UNCHANGED outsideRetry

RetryNext ==
    \/ CallRetryWithBackoff
    \/ InvokeOperation
    \/ SleepEnds
    \/ RetryEnds

Retrying == Init /\ [][RetryNext]_vars

(***************************************************************************)
(* SelectionHandler.onSelectionChanged and the timeout it sets             *)
(***************************************************************************)
\* the selection changes delivered in one run
MaxEvents == 3

\* the last instant a selection change is delivered at, in half delays
MaxHalfDelays == 5

\* the step of the clock: events arrive less than a delay apart, a delay apart
\* or more
HalfDelay == debounceDelay \div 2

\* new vscode.Selection(startLine, startCharacter, endLine, endCharacter) in
\* the document of uri
Selection(uri, startLine, startCharacter, endLine, endCharacter) ==
    [uri |-> uri, start |-> [line |-> startLine, character |-> startCharacter],
     end |-> [line |-> endLine, character |-> endCharacter]]

\* the selections the editor reports: two lines selected, and the cursor
\* placed in a line
Selections ==
    { Selection("file:///a.ts", 8, 0, 8, 30),
      Selection("file:///a.ts", 9, 0, 9, 12),
      Selection("file:///a.ts", 3, 4, 3, 4) }

\* selectionId: `${uri}:${start.line}:${start.character}:${end.line}:${end.character}`
SelectionId(sel) ==
    sel.uri \o ":" \o ToString(sel.start.line)
        \o ":" \o ToString(sel.start.character)
        \o ":" \o ToString(sel.end.line)
        \o ":" \o ToString(sel.end.character)

\* selection.isEmpty: start and end are the same position
IsEmpty(sel) == sel.start = sel.end

\* an onSelectionChanged that leaves the timeout it replaces to fire
KeepTimeout(pending, handle) == pending

\* if (this.debounceTimer) { clearTimeout(this.debounceTimer); }: a timeout
\* that has fired or was cleared is no longer pending, and clearing it does
\* nothing
ClearTimeout(pending, handle) ==
    IF handle # NoTimeout THEN {t \in pending : t.id # handle} ELSE pending

\* the editor reports a selection change: onSelectionChanged(event)
SelectionChanged ==
    /\ ~disposed
    /\ Len(events) < MaxEvents
    /\ now <= MaxHalfDelays * HalfDelay
    /\ \E sel \in Selections :
           events' = Append(events, [at |-> now, sel |-> sel])
    /\ timers' = ClearTimeout(timers, debounceTimer)
                     \cup {[id |-> Len(events) + 1, due |-> now + debounceDelay,
                            event |-> Len(events) + 1]}
    /\ debounceTimer' = Len(events) + 1
    /\ UNCHANGED << now, isProcessing, lastProcessedSelection, handed, disposed, inFlight >>
    /\ UNCHANGED outsideDebounce

\* a timeout fires: () => { this.handleSelectionChange(event); }, up to the
\* first await that does not resolve at once.  shouldProcessSelection is not
\* called while isProcessing is set.  Without a configuration the handler
\* returns through its finally block.  For an empty selection
\* handleEmptySelection calls analyzeAndHighlightLine without awaiting it: the
\* request is started and the handler returns through its finally block.  For
\* any other selection the handler awaits the request
TimeoutFires ==
    /\ \E t \in timers : \E isConfigured \in BOOLEAN :
           /\ now >= t.due
           /\ timers' = timers \ {t}
           /\ LET sel == events[t.event].sel
                  selectionId == SelectionId(sel)
                  process == ~isProcessing /\ selectionId # lastProcessedSelection
                  request == process /\ isConfigured
              IN /\ handed' = Append(handed, [event |-> t.event, at |-> now,
                                              processed |-> process])
                 /\ lastProcessedSelection' =
                        IF ~isProcessing THEN selectionId ELSE lastProcessedSelection
                 /\ inFlight' = IF request
                                 THEN inFlight \cup {[event |-> t.event,
                                                      awaited |-> ~IsEmpty(sel)]}
                                 ELSE inFlight
                 /\ isProcessing' = (isProcessing \/ (request /\ ~IsEmpty(sel)))
    /\ UNCHANGED << now, events, debounceTimer, disposed >>
    /\ UNCHANGED outsideDebounce

\* a request comes to its end: the explanation or the error has been handed to
\* the webview (updateContent, showError); if handleSelectionChange awaits the
\* request, it comes to its end too: finally { this.isProcessing = false; }
ProcessingEnds ==
    /\ \E request \in inFlight :
           /\ inFlight' = inFlight \ {request}
           /\ isProcessing' = IF request.awaited THEN FALSE ELSE isProcessing
    /\ UNCHANGED << now, events, timers, debounceTimer, lastProcessedSelection, handed,
                    disposed >>
    /\ UNCHANGED outsideDebounce

\* time passes; a timeout that is due fires before more time passes
TimePasses ==
    /\ now < (MaxHalfDelays + 2) * HalfDelay
    /\ \A t \in timers : now + HalfDelay <= t.due
    /\ now' = now + HalfDelay
    /\ UNCHANGED << events, timers, debounceTimer, isProcessing, lastProcessedSelection,
                    handed, disposed, inFlight >>
    /\ UNCHANGED outsideDebounce

\* dispose(): the pending timeout is cleared; the event listeners are
\* disposed of with the extension context
Dispose ==
    /\ ~disposed
    /\ disposed' = TRUE
    /\ timers' = ClearTimeout(timers, debounceTimer)
    /\ UNCHANGED << now, events, debounceTimer, isProcessing, lastProcessedSelection,
                    handed, inFlight >>
    /\ UNCHANGED outsideDebounce

DebounceNext ==
    \/ SelectionChanged
    \/ TimeoutFires
    \/ ProcessingEnds
    \/ TimePasses
    \/ Dispose

Debouncing == Init /\ [][DebounceNext]_vars

(***************************************************************************)
(* CodeExplanationWebview.updateContent and the explanation history        *)
(***************************************************************************)
\* the updateContent calls the extension makes in one run
MaxUpdates == 11

\* the explanation of the n-th call: `Explanation ${n}`
Explanation(n) == "Explanation " \o ToString(n)

\* a _addToHistory without the limit
AddWithoutLimit(history, historyItem) == <<historyItem>> \o history

\* this._explanationHistory.unshift(historyItem); if (length > _maxHistoryItems)
\* this._explanationHistory = this._explanationHistory.slice(0, _maxHistoryItems)
AddToHistory(history, historyItem) ==
    LET grown == <<historyItem>> \o history
    IN IF Len(grown) > maxHistoryItems THEN SubSeq(grown, 1, maxHistoryItems) ELSE grown

\* what _saveState stores
SavedState(state, explanation, history) ==
    [saved |-> TRUE, currentState |-> state, currentExplanation |-> explanation,
     explanationHistory |-> history]

\* an updateContent that is content with a code snippet or a language:
\* if (codeSnippet || language)
UpdateContentWithEither(explanation, codeSnippet, language, timestamp) ==
    LET historyItem == [explanation |-> explanation, codeSnippet |-> codeSnippet,
                        language |-> language, timestamp |-> timestamp]
        add == codeSnippet # "" \/ language # ""
        history == IF add THEN AddToHistory(explanationHistory, historyItem)
                   ELSE explanationHistory
    IN /\ currentExplanation' = explanation
       /\ currentState' = "explanation"
       /\ explanationHistory' = history
       /\ everAdded' = IF add THEN Append(everAdded, historyItem) ELSE everAdded
       /\ lastUpdate' = [called |-> TRUE, explanation |-> explanation,
                         codeSnippet |-> codeSnippet, language |-> language]
       /\ posted' = IF viewResolved
                     THEN [type |-> "updateExplanation", hasHistory |-> Len(history) > 0]
                     ELSE posted
       /\ workspaceState' = SavedState("explanation", explanation, history)

\* updateContent(explanation, codeSnippet, language), with _addToHistory and
\* _saveState; timestamp stands for Date.now() at the call
UpdateContentWith(explanation, codeSnippet, language, timestamp) ==
    LET historyItem == [explanation |-> explanation, codeSnippet |-> codeSnippet,
                        language |-> language, timestamp |-> timestamp]
        add == codeSnippet # "" /\ language # ""
        history == IF add THEN AddToHistory(explanationHistory, historyItem)
                   ELSE explanationHistory
    IN /\ currentExplanation' = explanation
       /\ currentState' = "explanation"
       /\ explanationHistory' = history
       /\ everAdded' = IF add THEN Append(everAdded, historyItem) ELSE everAdded
       /\ lastUpdate' = [called |-> TRUE, explanation |-> explanation,
                         codeSnippet |-> codeSnippet, language |-> language]
       /\ posted' = IF viewResolved
                     THEN [type |-> "updateExplanation", hasHistory |-> Len(history) > 0]
                     ELSE posted
       /\ workspaceState' = SavedState("explanation", explanation, history)

\* the extension shows an explanation: updateContent is called with or without
\* a code snippet and a language
UpdateContent ==
    /\ updates < MaxUpdates
    /\ updates' = updates + 1
    /\ \E codeSnippet \in {"", "code"} : \E language \in {"", "javascript"} :
           UpdateContentWith(Explanation(updates + 1), codeSnippet, language, updates + 1)
    /\ UNCHANGED viewResolved
    /\ UNCHANGED outsideWebview

\* the webview sends loadHistoryItem: _onLoadHistoryItem(index) calls
\* updateContent(item.explanation) for an index of the history
LoadHistoryItem ==
    /\ viewResolved
    /\ \E index \in -1..Len(explanationHistory) :
           IF index >= 0 /\ index < Len(explanationHistory)
           THEN UpdateContentWith(explanationHistory[index + 1].explanation, "", "", updates)
           ELSE UNCHANGED << explanationHistory, currentExplanation, currentState, posted,
                             workspaceState, everAdded, lastUpdate >>
    /\ UNCHANGED << viewResolved, updates >>
    /\ UNCHANGED outsideWebview

\* clearHistory(), also reached from the webview's clearHistory message
ClearHistory ==
    /\ explanationHistory' = <<>>
    /\ everAdded' = <<>>
    /\ UNCHANGED lastUpdate
    /\ workspaceState' = SavedState(currentState, currentExplanation, <<>>)
    /\ posted' = IF viewResolved THEN [type |-> "historyCleared", hasHistory |-> FALSE]
                  ELSE posted
    /\ UNCHANGED << currentExplanation, currentState, viewResolved, updates >>
    /\ UNCHANGED outsideWebview

\* resolveWebviewView(webviewView, ...): the view exists from now on
ResolveWebviewView ==
    /\ ~viewResolved
    /\ viewResolved' = TRUE
    /\ UNCHANGED << explanationHistory, currentExplanation, currentState, posted,
                    workspaceState, updates, everAdded, lastUpdate >>
    /\ UNCHANGED outsideWebview

\* the window is reloaded: a new provider is constructed and _loadState takes
\* the fields from the saved state, if there is one
Reload ==
    /\ viewResolved' = FALSE
    /\ posted' = NoMessage
    /\ IF workspaceState.saved
       THEN /\ currentState' = workspaceState.currentState
            /\ currentExplanation' = workspaceState.currentExplanation
            /\ explanationHistory' = workspaceState.explanationHistory
       ELSE /\ currentState' = "welcome"
            /\ currentExplanation' = ""
            /\ explanationHistory' = <<>>
    /\ UNCHANGED << workspaceState, updates, everAdded, lastUpdate >>
    /\ UNCHANGED outsideWebview

WebviewNext ==
    \/ UpdateContent
    \/ LoadHistoryItem
    \/ ClearHistory
    \/ ResolveWebviewView
    \/ Reload

Explaining == Init /\ [][WebviewNext]_vars

(***************************************************************************)
(* IntegrationService.processCodeExplanation, one action for each of its   *)
(* three steps                                                             *)
(***************************************************************************)
RECURSIVE JoinLines(_)
\* Array.prototype.join('\n')
JoinLines(seq) ==
    IF seq = <<>> THEN ""
    ELSE IF Len(seq) = 1 THEN seq[1]
    ELSE seq[1] \o "\n" \o JoinLines(Tail(seq))

\* validateAnalysisResult(result): the message of the error it throws, or "".
\* relatedLines is an array in every result
ValidateAnalysisResult(analysisResult) ==
    IF Trim(analysisResult.selectedLine) = "" THEN "Selected line is empty or invalid"
    ELSE IF analysisResult.language = "" THEN "Code context is missing or invalid"
    ELSE ""

\* validateApiResponse(response): the message of the error it throws, or "";
\* the error indicators are only logged
ValidateApiResponse(response) ==
    IF response = "" THEN "Invalid API response format"
    ELSE IF Trim(response) = "" THEN "Empty API response"
    ELSE IF Len(response) < 10 THEN "API response too short to be meaningful"
    ELSE ""

\* the operation given to retryWithBackoff: explainCode, then validateApiResponse
OperationResult(r) ==
    IF r.ok /\ ValidateApiResponse(r.value) # ""
    THEN Rejected(PlainError(ValidateApiResponse(r.value)))
    ELSE r

\* how retryWithBackoff can end: with the value the operation resolved with or
\* with an error the operation rejected with
RetryOutcomes ==
    {OperationResult(r) :
        r \in {Resolved(response) : response \in ExplainCodeResponses}
                \cup {Rejected(error) : error \in ExplainCodeErrors}
                \cup {Rejected(ApiError("Empty response from Gemini API", 0, TRUE)),
                      Rejected(ApiError("Rate limit exceeded", 429, TRUE))}}

\* sortCodeLines(lines, analysisResult): the selected line first
SortCodeLines(lines, analysisResult) ==
    <<Trim(analysisResult.selectedLine)>>
        \o SelectSeq(lines, LAMBDA line : line # Trim(analysisResult.selectedLine))

\* prepareCodeSnippet(analysisResult)
PrepareCodeSnippet(analysisResult) ==
    LET allLines == <<analysisResult.selectedLine>> \o analysisResult.relatedLines
        nonEmpty == SelectSeq(Dedupe(allLines), LAMBDA line : Trim(line) # "")
        uniqueLines == [k \in DOMAIN nonEmpty |-> Trim(nonEmpty[k])]
    IN JoinLines(SortCodeLines(uniqueLines, analysisResult))

\* an analyzeCode that lets the error of analyzeCodeSelection through
AnalyzeCodeWithoutCatch(analyzed, startLine) ==
    IF ~analyzed.ok THEN analyzed
    ELSE IF ValidateAnalysisResult(analyzed.analysisResult) # ""
    THEN AnalysisRejected(PlainError(ValidateAnalysisResult(analyzed.analysisResult)))
    ELSE analyzed

\* analyzeCode(document, selection): the result, or an AnalysisError for
\* whatever was thrown
AnalyzeCode(analyzed, startLine) ==
    IF ~analyzed.ok
    THEN AnalysisRejected(NewAnalysisError("Code analysis failed: " \o analyzed.error.message,
                                           startLine))
    ELSE IF ValidateAnalysisResult(analyzed.analysisResult) # ""
    THEN AnalysisRejected(NewAnalysisError(
             "Code analysis failed: " \o ValidateAnalysisResult(analyzed.analysisResult),
             startLine))
    ELSE analyzed

\* generateExplanation(analysisResult): the explanation, or the ApiError that
\* was thrown, or an ApiError for whatever else was thrown
GenerateExplanation(retried) ==
    IF retried.ok \/ retried.error.class = "ApiError" THEN retried
    ELSE Rejected(ApiError("Failed to generate explanation: " \o retried.error.message,
                           0, FALSE))

\* handleProcessingError(error): the message it returns
HandleProcessingError(error) ==
    IF error.class = "AnalysisError" THEN "Code analysis error: " \o error.message
    ELSE IF error.class = "ApiError" THEN "API error: " \o error.message
    ELSE "Unexpected error: "
             \o (IF error.message = "" THEN "Unknown error occurred" ELSE error.message)

\* return { success: false, error: errorMessage }
Failed(error) ==
    [settled |-> "resolved", success |-> FALSE, explanation |-> "",
     error |-> HandleProcessingError(error)]

\* processCodeExplanation(document, selection) is called
CallProcessCodeExplanation ==
    /\ processPc = "idle"
    /\ runs < MaxRuns
    /\ runs' = runs + 1
    /\ processPc' = "analyzeCode"
    /\ analysisOutcome' = NoAnalysisOutcome
    /\ apiOutcome' = NoApiOutcome
    /\ uiOutcome' = "none"
    /\ processResult' = NoProcessResult
    /\ UNCHANGED webviewVars
    /\ UNCHANGED outsideIntegration

\* step 1: await this.analyzeCode(document, selection)
StepAnalyzeCode ==
    /\ processPc = "analyzeCode"
    /\ \E analyzed \in AnalysisOutcomes : \E startLine \in {0, 5} :
           /\ analysisOutcome' = analyzed
           /\ IF AnalyzeCode(analyzed, startLine).ok
              THEN /\ processPc' = "generateExplanation"
                   /\ UNCHANGED processResult
              ELSE /\ processPc' = "done"
                   /\ processResult' = Failed(AnalyzeCode(analyzed, startLine).error)
    /\ UNCHANGED << runs, apiOutcome, uiOutcome >>
    /\ UNCHANGED webviewVars
    /\ UNCHANGED outsideIntegration

\* step 2: await this.generateExplanation(analysisResult)
StepGenerateExplanation ==
    /\ processPc = "generateExplanation"
    /\ \E retried \in RetryOutcomes :
           /\ apiOutcome' = retried
           /\ IF GenerateExplanation(retried).ok
              THEN /\ processPc' = "updateUserInterface"
                   /\ UNCHANGED processResult
              ELSE /\ processPc' = "done"
                   /\ processResult' = Failed(GenerateExplanation(retried).error)
    /\ UNCHANGED << runs, analysisOutcome, uiOutcome >>
    /\ UNCHANGED webviewVars
    /\ UNCHANGED outsideIntegration

\* step 3: await this.updateUserInterface(explanation, analysisResult), and
\* return { success: true, explanation }
StepUpdateUserInterface ==
    /\ processPc = "updateUserInterface"
    /\ processPc' = "done"
    /\ \E ui \in UiOutcomes :
           /\ uiOutcome' = ui
           /\ IF ui = "updated"
              THEN /\ UpdateContentWith(apiOutcome.value,
                                        PrepareCodeSnippet(analysisOutcome.analysisResult),
                                        analysisOutcome.analysisResult.language,
                                        updates + 1)
                   /\ updates' = updates + 1
                   /\ UNCHANGED viewResolved
                   /\ processResult' = [settled |-> "resolved", success |-> TRUE,
                                        explanation |-> apiOutcome.value, error |-> ""]
              ELSE /\ processResult' = Failed(PlainError("UI update failed: " \o ui))
                   /\ UNCHANGED webviewVars
    /\ UNCHANGED << runs, analysisOutcome, apiOutcome >>
    /\ UNCHANGED outsideIntegration

\* the caller has the result
ProcessEnds ==
    /\ processPc = "done"
    /\ processPc' = "idle"
    /\ UNCHANGED << runs, analysisOutcome, apiOutcome, uiOutcome, processResult >>
    /\ UNCHANGED webviewVars
    /\ UNCHANGED outsideIntegration

IntegrationNext ==
    \/ CallProcessCodeExplanation
    \/ StepAnalyzeCode
    \/ StepGenerateExplanation
    \/ StepUpdateUserInterface
    \/ ProcessEnds

Processing == Init /\ [][IntegrationNext]_vars

(***************************************************************************)
(* The extension module: activate, deactivate and getExtensionStatus       *)
(***************************************************************************)
\* getExtensionStatus().isActive: !!extensionContext
IsActive(g) == g["extensionContext"]

\* outputChannel.appendLine('Extension deactivation started'), before the try
\* block: it throws a TypeError when outputChannel is undefined
DeactivationStarts(g) == g["outputChannel"]

\* activate(context) up to await performInitialSetup().  With the subscriptions
\* of the context missing, context.subscriptions.push(outputChannel) throws,
\* the catch block logs the error and throws it again
Activate ==
    /\ activatePc = "idle"
    /\ Len(lifecycle) < MaxLifecycleCalls
    /\ \E subscriptions \in BOOLEAN :
           IF subscriptions
           THEN /\ globals' = [name \in GlobalNames |-> TRUE]
                /\ activatePc' = "performInitialSetup"
                /\ lifecycle' = Append(lifecycle, [call |-> "activate", outcome |-> "pending",
                                                   isActive |-> TRUE])
           ELSE /\ globals' = [globals EXCEPT !["extensionContext"] = TRUE,
                                              !["outputChannel"] = TRUE]
                /\ activatePc' = "idle"
                /\ lifecycle' = Append(lifecycle, [call |-> "activate", outcome |-> "rejected",
                                                   isActive |-> TRUE])
    /\ UNCHANGED outsideExtension

\* performInitialSetup() comes to its end and activate goes on with
\* outputChannel.appendLine('Extension activated successfully'); without an
\* output channel that line throws and so does the one of the catch block
PerformInitialSetupEnds ==
    /\ activatePc = "performInitialSetup"
    /\ activatePc' = "idle"
    /\ LET pending == CHOOSE i \in DOMAIN lifecycle :
                          /\ lifecycle[i].call = "activate"
                          /\ lifecycle[i].outcome = "pending"
       IN lifecycle' = [lifecycle EXCEPT ![pending].outcome =
                            IF globals["outputChannel"] THEN "resolved" ELSE "rejected"]
    /\ UNCHANGED globals
    /\ UNCHANGED outsideExtension

\* deactivate(): the services are disposed of and the globals cleared
Deactivate ==
    /\ Len(lifecycle) < MaxLifecycleCalls
    /\ IF DeactivationStarts(globals)
       THEN /\ globals' = [name \in GlobalNames |-> FALSE]
            /\ lifecycle' = Append(lifecycle, [call |-> "deactivate", outcome |-> "returned",
                                               isActive |-> IsActive(globals')])
       ELSE /\ UNCHANGED globals
            /\ lifecycle' = Append(lifecycle, [call |-> "deactivate", outcome |-> "threw",
                                               isActive |-> IsActive(globals)])
    /\ UNCHANGED activatePc
    /\ UNCHANGED outsideExtension

ExtensionNext ==
    \/ Activate
    \/ PerformInitialSetupEnds
    \/ Deactivate

Lifecycle == Init /\ [][ExtensionNext]_vars

(***************************************************************************)
(* CodeDecorationManager: its methods                                      *)
(***************************************************************************)
\* createLineRange returns null
NoRange == [start |-> [line |-> -1, character |-> 0], end |-> [line |-> -1, character |-> 0]]

\* createLineRange(document, lineNumber)
CreateLineRange(doc, lineNumber) ==
    IF lineNumber < 0 \/ lineNumber >= Len(doc) THEN NoRange
    ELSE [start |-> [line |-> lineNumber, character |-> 0],
          end |-> [line |-> lineNumber, character |-> Len(doc[lineNumber + 1])]]

\* lines.map(line => this.createLineRange(document, line)).filter(range => range !== null)
LineRanges(doc, lines) ==
    LET ranges == [k \in DOMAIN lines |-> CreateLineRange(doc, lines[k])]
    IN SelectSeq(ranges, LAMBDA range : range # NoRange)

\* an updateHighlights that keeps the selected line among the related lines
UpdateHighlightsKeepingSelected(selectedLine, related, editor) ==
    LET selectedRange == CreateLineRange(EditorDocument(editor), selectedLine)
    IN [has |-> TRUE,
        selectedLine |-> IF selectedRange # NoRange THEN <<selectedRange>> ELSE <<>>,
        relatedLines |-> LineRanges(EditorDocument(editor), related)]

\* updateHighlights(selectedLine, relatedLines, editor): the entry it stores
UpdateHighlights(selectedLine, related, editor) ==
    LET selectedRange == CreateLineRange(EditorDocument(editor), selectedLine)
        relatedRanges ==
            LineRanges(EditorDocument(editor),
                       SelectSeq(related, LAMBDA line : line # selectedLine))
    IN [has |-> TRUE,
        selectedLine |-> IF selectedRange # NoRange THEN <<selectedRange>> ELSE <<>>,
        relatedLines |-> relatedRanges]

\* getHighlightedLines(editor); selectedLine: null is -1
GetHighlightedLines(decorations, editor) ==
    IF ~decorations[editor].has THEN [selectedLine |-> -1, relatedLines |-> <<>>]
    ELSE [selectedLine |-> IF Len(decorations[editor].selectedLine) > 0
                           THEN decorations[editor].selectedLine[1].start.line
                           ELSE -1,
          relatedLines |-> [k \in DOMAIN decorations[editor].relatedLines |->
                                decorations[editor].relatedLines[k].start.line]]

\* highlightLines(editor, lines)
HighlightLines ==
    /\ \E editor \in Editors : \E lines \in LineLists(editor) :
           /\ highlighted' = [editor |-> editor, lines |-> lines]
           /\ currentDecorations' =
                  IF Len(lines) = 0 THEN [other \in Editors |-> NoDecorations]
                  ELSE [currentDecorations EXCEPT
                            ![editor] = UpdateHighlights(lines[1], Tail(lines), editor)]
    /\ UNCHANGED outsideDecoration

\* highlightUserSelection(editor, selectedLines)
HighlightUserSelection ==
    /\ \E editor \in Editors : \E selectedLines \in LineLists(editor) :
           currentDecorations' =
               IF Len(selectedLines) = 0 THEN [other \in Editors |-> NoDecorations]
               ELSE [currentDecorations EXCEPT
                         ![editor] = [has |-> TRUE,
                                      selectedLine |-> LineRanges(EditorDocument(editor),
                                                                  selectedLines),
                                      relatedLines |-> <<>>]]
    /\ highlighted' = NoHighlight
    /\ UNCHANGED outsideDecoration

\* addRelatedLines(editor, relatedLines)
AddRelatedLines ==
    /\ \E editor \in Editors : \E related \in LineLists(editor) :
           LET existing == currentDecorations[editor]
               selectedLineNumbers == {existing.selectedLine[k].start.line :
                                           k \in DOMAIN existing.selectedLine}
           IN currentDecorations' =
                  IF ~existing.has THEN currentDecorations
                  ELSE [currentDecorations EXCEPT
                            ![editor].relatedLines =
                                LineRanges(EditorDocument(editor),
                                           SelectSeq(related, LAMBDA line :
                                                         line \notin selectedLineNumbers))]
    /\ highlighted' = NoHighlight
    /\ UNCHANGED outsideDecoration

\* clearHighlights(), also called by dispose()
ClearHighlights ==
    /\ currentDecorations' = [editor \in Editors |-> NoDecorations]
    /\ highlighted' = NoHighlight
    /\ UNCHANGED outsideDecoration

\* the visible editors change: cleanupClosedEditors()
CleanupClosedEditors ==
    /\ \E openEditors \in SUBSET Editors :
           currentDecorations' =
               [editor \in Editors |->
                    IF editor \in openEditors THEN currentDecorations[editor]
                    ELSE NoDecorations]
    /\ highlighted' = NoHighlight
    /\ UNCHANGED outsideDecoration

DecorationNext ==
    \/ HighlightLines
    \/ HighlightUserSelection
    \/ AddRelatedLines
    \/ ClearHighlights
    \/ CleanupClosedEditors

Decorating == Init /\ [][DecorationNext]_vars

(***************************************************************************)
(* SelectionHandler.generateExplanationForSelection and the webview        *)
(***************************************************************************)
\* the explanation requests started in one run
MaxRequests == 3

\* showLoading(), with _saveState
ShowLoading ==
    /\ currentState' = "loading"
    /\ posted' = IF viewResolved THEN [type |-> "showLoading", hasHistory |-> FALSE]
                  ELSE posted
    /\ workspaceState' = SavedState("loading", currentExplanation, explanationHistory)

\* showError(message), with _saveState
ShowError ==
    /\ currentState' = "error"
    /\ posted' = IF viewResolved THEN [type |-> "showError", hasHistory |-> FALSE]
                  ELSE posted
    /\ workspaceState' = SavedState("error", currentExplanation, explanationHistory)

\* showWelcome(), with _saveState
ShowWelcome ==
    /\ currentState' = "welcome"
    /\ posted' = IF viewResolved THEN [type |-> "showWelcome", hasHistory |-> FALSE]
                  ELSE posted
    /\ workspaceState' = SavedState("welcome", currentExplanation, explanationHistory)

\* explainCurrentSelection(): analyzeAndHighlightLine or handleComplexSelection,
\* up to the first await of generateExplanationForSelection.  Neither looks at
\* isProcessing.  Over an explanation that is shown the inline notice is used,
\* which leaves the state of the provider as it is; otherwise showLoading().
\* generateExplanationForSelection sets its timeout of 30 seconds and awaits
\* the analysis and the API
ExplainCurrentSelection ==
    /\ started < MaxRequests
    /\ started' = started + 1
    /\ requests' = requests \cup {[id |-> started + 1, timeout |-> TRUE]}
    /\ LET hasExistingContent == currentState = "explanation" /\ currentExplanation # ""
       IN IF hasExistingContent
          THEN UNCHANGED << currentState, posted, workspaceState, shown >>
          ELSE /\ ShowLoading
               /\ shown' = [request |-> started + 1, kind |-> "loading"]
    /\ UNCHANGED << explanationHistory, currentExplanation, viewResolved, updates,
                    everAdded, lastUpdate >>
    /\ UNCHANGED outsideRequest

\* the timeout of a request fires, 30 seconds after the request was started
\* and so after the timeouts of the requests started before it: the callback
\* calls showError('Request timed out...'); the request goes on
RequestTimesOut ==
    /\ \E r \in requests :
           /\ r.timeout
           /\ \A q \in requests : q.timeout => q.id >= r.id
           /\ requests' = (requests \ {r}) \cup {[r EXCEPT !.timeout = FALSE]}
           /\ shown' = [request |-> r.id, kind |-> "timeout"]
    /\ ShowError
    /\ UNCHANGED << explanationHistory, currentExplanation, viewResolved, updates,
                    everAdded, lastUpdate, started >>
    /\ UNCHANGED outsideRequest

\* retryWithBackoff resolves with the explanation of a request: the timeout
\* is cleared and updateContent(explanation, selectedText, language) is called
RequestResolves ==
    /\ \E r \in requests :
           /\ requests' = requests \ {r}
           /\ shown' = [request |-> r.id, kind |-> "explanation"]
           /\ UpdateContentWith(Explanation(r.id), "code", "javascript", r.id)
    /\ UNCHANGED << viewResolved, updates, started >>
    /\ UNCHANGED outsideRequest

\* the analysis or the API of a request rejects: the catch block clears the
\* timeout and calls showError(errorMessage)
RequestRejects ==
    /\ \E r \in requests :
           /\ requests' = requests \ {r}
           /\ shown' = [request |-> r.id, kind |-> "error"]
    /\ ShowError
    /\ UNCHANGED << explanationHistory, currentExplanation, viewResolved, updates,
                    everAdded, lastUpdate, started >>
    /\ UNCHANGED outsideRequest

\* the window is reloaded while the handler is at work: the extension host
\* ends and its pending requests with it; the constructor of the new provider
\* calls _loadState
WindowReloads ==
    /\ requests' = {}
    /\ shown' = NoRequestShown
    /\ viewResolved' = FALSE
    /\ posted' = NoMessage
    /\ IF workspaceState.saved
       THEN /\ currentState' = workspaceState.currentState
            /\ currentExplanation' = workspaceState.currentExplanation
            /\ explanationHistory' = workspaceState.explanationHistory
       ELSE /\ currentState' = "welcome"
            /\ currentExplanation' = ""
            /\ explanationHistory' = <<>>
    /\ UNCHANGED << workspaceState, updates, everAdded, lastUpdate, started >>
    /\ UNCHANGED outsideRequest

\* the webview sends ready: _onWebviewReady() shows the state the provider is
\* in once more.  A provider in the error state has the message of its error
OnWebviewReady ==
    /\ viewResolved
    /\ CASE currentState = "explanation" /\ currentExplanation # "" ->
                /\ posted' = [type |-> "updateExplanation",
                              hasHistory |-> Len(explanationHistory) > 0]
                /\ UNCHANGED << currentState, workspaceState >>
         [] currentState = "loading" -> ShowLoading
         [] currentState = "error" -> ShowError
         [] OTHER -> ShowWelcome
    /\ UNCHANGED << explanationHistory, currentExplanation, viewResolved, updates,
                    everAdded, lastUpdate >>
    /\ UNCHANGED requestVars
    /\ UNCHANGED outsideRequest

RequestNext ==
    \/ ExplainCurrentSelection
    \/ RequestTimesOut
    \/ RequestResolves
    \/ RequestRejects
    \/ WindowReloads
    \/ ResolveWebviewView
    \/ OnWebviewReady

Requesting == Init /\ [][RequestNext]_vars

(***************************************************************************)
(* Properties of findRelatedLines and analyzeCodeSelection                 *)
(***************************************************************************)

\* C1: for every document and every valid target line t, the array that
\* findRelatedLines(document, t) returns contains t; a call for a valid line
\* whose text can be read always returns.
TargetLineIncluded ==
    /\ outcome.kind = "array" =>
           /\ ValidLine(document, targetLine)
           /\ outcome.lines = result
           /\ targetLine \in Range(outcome.lines)
    /\ pc \in {"relatedText", "buildCodeContext"} => targetLine \in Range(result)
    /\ (pc = "done" /\ caller = "external" /\ thrown.by # "targetLineText") =>
           outcome.kind = "array"

\* a call has returned several lines, the target line among them but not first
TargetLineIncludedWitness ==
    /\ pc = "done"
    /\ outcome.kind = "array"
    /\ Len(outcome.lines) > 1
    /\ outcome.lines[1] # targetLine
    /\ targetLine \in Range(outcome.lines)

AnalysisFailsClosed ==
    /\ (caller = "analyzeCodeSelection"
            /\ thrown.by \in {"selectedLine", "targetLineText", "relatedLines", "context"}) =>
           /\ pc = "done"
           /\ outcome.kind = "error"
           /\ outcome.error.name = "AnalysisError"
           /\ Includes(outcome.error.message, thrown.error.message)
           /\ outcome.error.lineNumber = selection.start
           /\ outcome.analysis = NoAnalysis
           /\ outcome.lines = <<>>
    /\ outcome.kind = "analysis" =>
           thrown.by \notin {"selectedLine", "targetLineText", "relatedLines", "context"}

\* building the CodeContext failed for a selection that ends below the line it
\* starts on: the caller has an AnalysisError for the start line
AnalysisFailsClosedWitness ==
    /\ pc = "done"
    /\ caller = "analyzeCodeSelection"
    /\ thrown = [by |-> "context", error |-> MockError]
    /\ selection.end # selection.start
    /\ outcome.kind = "error"
    /\ outcome.error.lineNumber = selection.start
    /\ Includes(outcome.error.message, "Mock error")

\* C4: findRelatedLines never propagates an exception a finder throws: the
\* call returns normally, with a non-empty array that contains the target line.
FinderErrorsContained ==
    \A k \in 1..Len(Finders) :
        thrown.by = Finders[k] =>
            /\ outcome.kind # "error"
            /\ pc \in {"return", "relatedText", "buildCodeContext", "done"}
            /\ pc # "return" => (Len(result) > 0 /\ targetLine \in Range(result))
            /\ (pc = "done" /\ caller = "external") =>
                   (outcome.kind = "array" /\ outcome.lines = result)
            /\ Len(warnings) = 1

\* the control-flow finder threw; the caller of findRelatedLines has an array
\* with the target line in it and the error was logged
FinderErrorsContainedWitness ==
    /\ pc = "done"
    /\ caller = "external"
    /\ thrown = [by |-> Finders[3], error |-> MockError]
    /\ outcome.kind = "array"
    /\ Len(outcome.lines) > 0
    /\ targetLine \in Range(outcome.lines)
    /\ Len(warnings) = 1

(***************************************************************************)
(* Properties of the finders                                               *)
(***************************************************************************)

\* C5: when the target line references variables only inside a call's
\* argument list, findRelatedLines includes every line that declares one of
\* them: for ["const x = 5;", "let y = 10;", "console.log(x + y);"] and target
\* line 2 the result includes 0, 1 and 2, and for the test suite's sample and
\* its line 12, `console.log(x + y);`, it includes the declarations on 9 and 10.
ArgumentDeclarationsIncluded ==
    (pc = "done" /\ outcome.kind = "array" /\ thrown = NothingThrown) =>
        /\ (document = ArgumentsCode /\ targetLine = 2) =>
               {0, 1, 2} \subseteq Range(outcome.lines)
        /\ (document = SampleCode /\ targetLine = 12) =>
               {9, 10, 12} \subseteq Range(outcome.lines)

\* C6: for every call-shaped name on the target line that is not on the
\* built-in deny-list, the lines the function finder contributes include every
\* other line of the document that matches one of the five definition shapes
\* for that name.
DefinitionLinesFound ==
    pc = Finders[3] =>
        \A name \in SearchedFunctionNames(LineAt(document, targetLine)) :
            \A i \in (0..(LineCount(document) - 1)) \ {targetLine} :
                (\E k \in DOMAIN FunctionDefPatterns(name) :
                     Test(FunctionDefPatterns(name)[k], LineAt(document, i)))
                    => i \in added[2]

\* C7 as the specification states it: when the target line lies inside the
\* body of a try block (it is not the try header itself), the result of
\* findRelatedLines includes the header line of the catch of that try.
CatchOfEnclosingTryIncluded ==
    (pc = "done" /\ outcome.kind = "array" /\ thrown = NothingThrown) =>
        \A try \in 0..(targetLine - 1) :
            LET boundaries == FindControlStructureBoundaries(document, try)
                IsTryHeader == Test(Bol \o Ws \o Lit("try") \o Ws \o Lit("{"),
                                    LineAt(document, try))
                HasCatch(i) == /\ i < LineCount(document)
                               /\ Test(Wb \o Lit("catch") \o Wb, LineAt(document, i))
            IN (IsTryHeader /\ Len(boundaries) > 1 /\ targetLine < Last(boundaries)) =>
                   \A i \in {Last(boundaries), Last(boundaries) + 1} :
                       HasCatch(i) => i \in Range(outcome.lines)

\* C7 as the code has it: the control-flow finder looks at the target line
\* only.  For a target line inside the body of a try block that is itself no
\* loop, conditional, try/catch/finally or switch line, no break or continue
\* and no return, it contributes nothing: the result holds the target line and
\* what the other four finders add, and the catch header only if one of them
\* adds it.
PlainLineInTryAddsNoControlFlow ==
    (pc \in {Finders[4], Finders[5], "return", "done"}
         /\ thrown = NothingThrown /\ caller = "external") =>
        LET targetLineText == Trim(LineAt(document, targetLine))
            InTryBody ==
                \E try \in 0..(targetLine - 1) :
                    LET boundaries == FindControlStructureBoundaries(document, try)
                    IN /\ Test(Bol \o Ws \o Lit("try") \o Ws \o Lit("{"), LineAt(document, try))
                       /\ Len(boundaries) > 1
                       /\ targetLine < Last(boundaries)
            Plain ==
                /\ ~IsLoopStructure(targetLineText)
                /\ ~IsConditionalStructure(targetLineText)
                /\ ~IsTryCatchStructure(targetLineText)
                /\ ~IsSwitchStructure(targetLineText)
                /\ ~IsBreakOrContinue(targetLineText)
                /\ ~IsReturnStatement(targetLineText)
        IN (InTryBody /\ Plain) =>
               /\ added[3] = {}
               /\ outcome.kind = "array" =>
                      Range(outcome.lines) =
                          {targetLine} \cup added[1] \cup added[2] \cup added[4] \cup added[5]

\* the target is `risky(input);` on line 4, inside the try of lines 3 to 6:
\* the array returned does not hold line 6, `} catch (e) {`
PlainLineInTryAddsNoControlFlowWitness ==
    /\ pc = "done"
    /\ outcome.kind = "array"
    /\ thrown = NothingThrown
    /\ document = TryCatchCode
    /\ targetLine = 4
    /\ Test(Wb \o Lit("catch") \o Wb, LineAt(document, 6))
    /\ added[3] = {}
    /\ 6 \notin Range(outcome.lines)

\* C8: whenever a `class NAME`, `interface NAME` or `type NAME` header precedes
\* the target line, the class-member finder adds the line of the nearest such
\* header above it and, if that block contains a `constructor(` or `__init__(`
\* line, the constructor line, even when the target line references no member.
NearestHeaderAndConstructorAdded ==
    (pc = "return" /\ thrown = NothingThrown) =>
        LET IsHeader(lineText) == FirstCapture(ContainingClassPatterns, 1, lineText).found
            header == NearestAbove({i \in 0..(targetLine - 1) : IsHeader(LineAt(document, i))})
            boundaries == FindControlStructureBoundaries(document, header)
            constructors == {i \in header..Last(boundaries) :
                                 IsConstructorLine(LineAt(document, i))}
        IN header # -1 =>
               /\ header \in added[5]
               /\ constructors # {} =>
                      (CHOOSE i \in constructors : \A j \in constructors : i <= j)
                          \in added[5]

\* C9: when the target line is a return statement inside a function or a
\* class method, the result of findRelatedLines includes the line that defines
\* the enclosing function or method: line 8, `testMethod() {`, for the sample's
\* line 15, and line 0, `function add(a, b) {`, for `return sum;`.
ReturnFindsEnclosingDefinition ==
    (pc = "done" /\ outcome.kind = "array" /\ thrown = NothingThrown) =>
        /\ (document = SampleCode /\ targetLine = 15) =>
               (IsReturnStatement(LineAt(document, 15)) /\ 8 \in Range(outcome.lines))
        /\ (document = ReturnCode /\ targetLine = 2) =>
               (IsReturnStatement(LineAt(document, 2)) /\ 0 \in Range(outcome.lines))

\* C10: for every identifier extracted from the target line that is the
\* binding name a named, default, namespace or require-style import within the
\* first 100 lines introduces, the line of that import is in the result.
ImportBindingsFound ==
    (pc = "done" /\ outcome.kind = "array" /\ thrown = NothingThrown) =>
        LET IntroducesBinding(lineText, id) ==
                \/ Test(Bol \o Ws \o Lit("import") \o Ws \o Lit("{") \o Ws \o Lit(id) \o Ws
                            \o Set({",", "}"}), lineText)
                \/ Test(Bol \o Ws \o Lit("import") \o Ws \o Lit("{") \o AnyStar
                            \o Set({" ", ","}) \o Lit(id) \o Ws \o Set({",", "}"}), lineText)
                \/ Test(Bol \o Ws \o Lit("import") \o Ws1 \o Lit(id) \o Ws1 \o Lit("from"),
                        lineText)
                \/ Test(Bol \o Ws \o Lit("import") \o Ws \o Lit("*") \o Ws \o Lit("as") \o Ws1
                            \o Lit(id) \o Ws1 \o Lit("from"), lineText)
                \/ Test(Bol \o Ws \o Alt(<<Lit("const"), Lit("let"), Lit("var")>>) \o Ws1
                            \o Lit(id) \o Ws \o Lit("=") \o Ws \o Lit("require") \o Ws
                            \o Lit("("), lineText)
        IN \A id \in Range(ExtractAllIdentifiers(LineAt(document, targetLine))) :
               \A i \in 0..(Min(ImportScanLimit, LineCount(document)) - 1) :
                   IntroducesBinding(LineAt(document, i), id) => i \in Range(outcome.lines)

\* C11: when the target line is an `if (...) {` header whose block is closed
\* by a matching `}` on a later line, the result of findRelatedLines includes
\* the header line and the line of that closing brace.  The matching brace is
\* the one at which the braces counted from the header on, character by
\* character, are balanced for the first time.
IfHeaderAndClosingBraceIncluded ==
    (pc = "done" /\ outcome.kind = "array"
         /\ thrown.by \notin {Finders[1], Finders[2], Finders[3]}) =>
        LET positions == {<<i, k>> \in (targetLine..(LineCount(document) - 1)) \X (1..80) :
                              k <= Len(LineAt(document, i))}
            Char(p) == CharAt(LineAt(document, p[1]), p[2])
            UpTo(q) == {p \in positions : p[1] < q[1] \/ (p[1] = q[1] /\ p[2] <= q[2])}
            Depth(q) == Cardinality({p \in UpTo(q) : Char(p) = "{"})
                            - Cardinality({p \in UpTo(q) : Char(p) = "}"})
            balanced == {q \in positions : Char(q) = "}" /\ Depth(q) = 0}
            closing == CHOOSE q \in balanced : \A r \in balanced : q[1] <= r[1]
            IsIfHeader == Test(Bol \o Ws \o Lit("if") \o Ws \o Lit("(") \o AnyStar \o Lit(")")
                                   \o Ws \o Lit("{"), LineAt(document, targetLine))
        IN (IsIfHeader /\ balanced # {} /\ closing[1] > targetLine) =>
               {targetLine, closing[1]} \subseteq Range(outcome.lines)

\* the target is `  if (a > b) {` on line 1, its block is closed on line 4,
\* `  } else if (b > 0) {`: both are in the array returned
IfHeaderAndClosingBraceIncludedWitness ==
    /\ pc = "done"
    /\ outcome.kind = "array"
    /\ thrown = NothingThrown
    /\ document = ConditionalCode
    /\ targetLine = 1
    /\ {1, 4} \subseteq Range(outcome.lines)
    /\ 8 \notin Range(outcome.lines)

\* C12: the block-boundary resolver always yields a closing line >= its start
\* line, and when no matching closing brace exists before the end of the
\* document the closing line it yields is the document's last line index.
\* Stated for both resolvers of the code where their callers call them:
\* findControlStructureBoundaries on the header of a loop, a conditional, a
\* try or a switch, findClassBoundaries on the name of the containing class.
BoundaryResolverTotal ==
    LET lastLine == LineCount(document) - 1
        Unclosed(start) ==
            LET positions == {<<i, k>> \in (start..lastLine) \X (1..80) :
                                  k <= Len(LineAt(document, i))}
                Char(p) == CharAt(LineAt(document, p[1]), p[2])
                UpTo(q) == {p \in positions : p[1] < q[1] \/ (p[1] = q[1] /\ p[2] <= q[2])}
                Depth(q) == Cardinality({p \in UpTo(q) : Char(p) = "{"})
                                - Cardinality({p \in UpTo(q) : Char(p) = "}"})
            IN \A q \in positions : ~(Char(q) = "}" /\ Depth(q) = 0)
        text == Trim(LineAt(document, targetLine))
        class == FindContainingClass(document, targetLine)
    IN /\ (pc = "enhancedControlFlowAnalysis"
              /\ (IsLoopStructure(text) \/ IsConditionalStructure(text)
                    \/ IsTryCatchStructure(text) \/ IsSwitchStructure(text))) =>
           LET boundaries == FindControlStructureBoundaries(document, targetLine)
           IN /\ Len(boundaries) = 2
              /\ boundaries[1] = targetLine
              /\ boundaries[2] >= boundaries[1]
              /\ Unclosed(targetLine) => boundaries[2] = lastLine
       /\ (pc = "findClassMemberRelationships" /\ class.found
              /\ FindClassBoundaries(document, class.name).start # -1) =>
           LET boundaries == FindClassBoundaries(document, class.name)
           IN /\ boundaries.end >= boundaries.start
              /\ Unclosed(boundaries.start) => boundaries.end = lastLine

\* C13: for a fixed document and target line, findRelatedLines calls on the
\* same service instance return the same set of line indices every time,
\* however many calls for other documents or target lines were made in
\* between.  The document is fixed with its accessor: the two calls compared
\* are calls in which the accessor failed at the same point, or not at all.
SameLinesEveryCall ==
    (pc = "done" /\ earlier # NoCall /\ earlier.document = document
         /\ earlier.targetLine = targetLine /\ earlier.thrown = thrown) =>
        /\ outcome.kind = earlier.outcome.kind
        /\ Range(outcome.lines) = Range(earlier.outcome.lines)
        /\ outcome = earlier.outcome

\* line 2 of the overloads document, `foo(1);`, is analysed a second time with
\* calls made in between, and the array is the one of the remembered call:
\* the definition pattern starts at lastIndex 0 again and finds line 0
SameLinesEveryCallWitness ==
    /\ pc = "done"
    /\ document = OverloadsCode
    /\ targetLine = 2
    /\ thrown = NothingThrown
    /\ earlier.document = OverloadsCode
    /\ earlier.targetLine = 2
    /\ earlier.thrown = NothingThrown
    /\ earlier.since >= 1
    /\ outcome.kind = "array"
    /\ 0 \in Range(outcome.lines)
    /\ outcome.lines = earlier.outcome.lines

\* C14: the array returned by findRelatedLines is in ascending numeric order
\* and contains no line index twice, whichever finders contributed a line and
\* however many of them contributed the same line.  Checked on the array the
\* external caller gets and on the one analyzeCodeSelection gets.
ArrayAscendingWithoutDuplicates ==
    LET Ascending(lines) ==
            \A i \in DOMAIN lines : \A j \in DOMAIN lines : i < j => lines[i] < lines[j]
    IN /\ (pc = "done" /\ outcome.kind = "array") =>
              /\ Ascending(outcome.lines)
              /\ Range(outcome.lines) = relatedLines
       /\ pc = "relatedText" => Ascending(result)

\* line 21 of the sample: the variable finder and the class member finder
\* both contribute line 8, the Set received 21, 8, 20, 19, 3, 4 in that order
ArrayAscendingWithoutDuplicatesWitness ==
    /\ pc = "done"
    /\ outcome.kind = "array"
    /\ document = SampleCode
    /\ targetLine = 21
    /\ 8 \in added[1] \cap added[5]
    /\ 19 \in added[3]
    /\ outcome.lines = <<3, 4, 8, 19, 20, 21>>

\* C15: every element i of the array returned by findRelatedLines is a valid
\* line index of the document, 0 <= i < lineCount, so the accessor is never
\* asked for a line outside the document when analyzeCodeSelection reads the
\* text of the related lines.
RelatedLinesAreLinesOfDocument ==
    LET InDocument(lines) ==
            \A k \in DOMAIN lines : lines[k] >= 0 /\ lines[k] < LineCount(document)
    IN /\ (pc = "done" /\ outcome.kind = "array") => InDocument(outcome.lines)
       /\ pc \in {"relatedText", "buildCodeContext"} => InDocument(result)
       /\ (pc = "done" /\ outcome.kind = "analysis") => InDocument(result)
       /\ ~(thrown.by = "relatedLines" /\ thrown.error = IllegalLineError)

\* the last line of the unclosed class is analysed: the class boundary ends
\* on the document's last line, the class has no constructor, and the array
\* holds lines 0, 1 and 3 of the four; analyzeCodeSelection has read them
RelatedLinesAreLinesOfDocumentWitness ==
    /\ pc = "buildCodeContext"
    /\ document = UnclosedCode
    /\ targetLine = 3
    /\ added[5] = {0, 1}
    /\ result = <<0, 1, 3>>
    /\ Len(analysis.relatedLines) = 3

(***************************************************************************)
(* Properties of retryWithBackoff                                          *)
(***************************************************************************)

\* C16: when the operation fails with an ApiError whose retryable flag is
\* false, or with a ConfigurationError, retryWithBackoff invokes the operation
\* exactly once, does not wait, and rethrows that same error.  Such a failure
\* always ends the call: the invocation is the last one, no sleep follows it,
\* and the error thrown is the one the operation failed with; when it is the
\* first invocation that fails so, it is the only one and there is no sleep.
NonRetryableErrorRethrownAtOnce ==
    \A k \in DOMAIN invocations :
        LET error == invocations[k].error
        IN (/\ ~invocations[k].ok
            /\ \/ (error.class = "ApiError" /\ error.retryable = FALSE)
               \/ error.class = "ConfigurationError") =>
               /\ retryPc = "done"
               /\ k = Len(invocations)
               /\ Len(sleeps) = k - 1
               /\ retryOutcome.kind = "error"
               /\ retryOutcome.error = error
               /\ k = 1 => (Len(invocations) = 1 /\ sleeps = <<>>)

\* the operation rejects with new ApiError('Invalid API key', 401, false) under
\* the default of 3 retries: one invocation, no sleep, that error thrown
NonRetryableErrorRethrownAtOnceWitness ==
    /\ retryPc = "done"
    /\ maxRetries = 3
    /\ invocations = <<Rejected(ApiError("Invalid API key", 401, FALSE))>>
    /\ sleeps = <<>>
    /\ retryOutcome.kind = "error"
    /\ retryOutcome.error.message = "Invalid API key"

\* C17: retryWithBackoff invokes the operation again after each retryable
\* failure until the first success, whose value it returns without invoking
\* the operation again, and it never invokes the operation more than
\* maxRetries + 1 times.  A failure counts as retryable when it is neither an
\* ApiError with retryable false nor a ConfigurationError.
RetriedUntilSuccessOrLimit ==
    LET n == Len(invocations)
        Retryable(error) ==
            /\ ~(error.class = "ApiError" /\ error.retryable = FALSE)
            /\ error.class # "ConfigurationError"
    IN /\ n <= maxRetries + 1
       /\ \A k \in DOMAIN invocations :
              invocations[k].ok =>
                  /\ k = n
                  /\ retryPc = "done"
                  /\ retryOutcome.kind = "value"
                  /\ retryOutcome.value = invocations[k].value
       /\ (retryPc = "done" /\ retryOutcome.kind = "value") => (n >= 1 /\ invocations[n].ok)
       /\ (retryPc = "done" /\ n >= 1 /\ ~invocations[n].ok /\ Retryable(invocations[n].error)) =>
              n = maxRetries + 1
       /\ retryPc = "done" => n >= 1

\* the operation fails twice with new ApiError('Temporary error', 500, true)
\* and then resolves to 'success': three invocations, 'success' returned
RetriedUntilSuccessOrLimitWitness ==
    /\ retryPc = "done"
    /\ maxRetries = 3
    /\ invocations = << Rejected(ApiError("Temporary error", 500, TRUE)),
                        Rejected(ApiError("Temporary error", 500, TRUE)),
                        Resolved("success") >>
    /\ retryOutcome.kind = "value"
    /\ retryOutcome.value = "success"

\* C18: after the k-th failed attempt (k = 0, 1, 2, ...) that is going to be
\* retried, retryWithBackoff waits 1000 * 2^k milliseconds before the next
\* attempt; the number of waits equals the number of failed attempts that are
\* followed by another attempt, and there is no wait after the final attempt.
WaitsDoubleFromOneSecond ==
    /\ \A k \in DOMAIN sleeps : sleeps[k] = 1000 * 2^(k - 1)
    /\ \A k \in DOMAIN sleeps : k <= Len(invocations) /\ ~invocations[k].ok
    /\ retryPc = "sleep" => Len(sleeps) = Len(invocations)
    /\ retryPc = "operation" => Len(sleeps) = Len(invocations)
    /\ retryPc = "done" => Len(sleeps) = Len(invocations) - 1

\* four attempts fail under the default of 3 retries: the waits are 1000, 2000
\* and 4000 ms, and the last error is thrown without a fourth wait
WaitsDoubleFromOneSecondWitness ==
    /\ retryPc = "done"
    /\ maxRetries = 3
    /\ Len(invocations) = 4
    /\ \A k \in 1..4 : ~invocations[k].ok
    /\ sleeps = <<1000, 2000, 4000>>
    /\ retryOutcome.kind = "error"

(***************************************************************************)
(* Properties of the selection handler's debounce                          *)
(***************************************************************************)

\* C19: when several selection-change events arrive less than the debounce
\* delay (500 ms) apart, only the last of them is handed to
\* handleSelectionChange, exactly once, one debounce delay after that last
\* event; the earlier events are never processed.  An event followed by
\* another one less than 500 ms later is never handed over; no event is handed
\* over twice, nor at another time than 500 ms after it arrived; and once more
\* than 500 ms have passed since an event that no other event followed within
\* that time, it has been handed over (as long as the handler is not disposed).
OnlyLastOfBurstHandedOver ==
    \A k \in DOMAIN events :
        LET calls == {h \in DOMAIN handed : handed[h].event = k}
            followed == k < Len(events) /\ events[k + 1].at - events[k].at < 500
            alone == k = Len(events) \/ events[k + 1].at - events[k].at > 500
        IN /\ Cardinality(calls) <= 1
           /\ followed => calls = {}
           /\ \A h \in calls : handed[h].at = events[k].at + 500
           /\ (alone /\ ~disposed /\ now > events[k].at + 500) => calls # {}

\* three selection changes arrive 250 ms after one another; the third alone
\* is handed to handleSelectionChange, 500 ms after it arrived
OnlyLastOfBurstHandedOverWitness ==
    /\ ~disposed
    /\ Len(events) = 3
    /\ events[2].at = events[1].at + 250
    /\ events[3].at = events[2].at + 250
    /\ Len(handed) = 1
    /\ handed[1].event = 3
    /\ handed[1].at = events[3].at + 500
    /\ now > handed[1].at

(***************************************************************************)
(* Properties of the webview's explanation history                         *)
(***************************************************************************)

\* C20: after any sequence of updateContent calls, the explanation history
\* holds at most 10 entries, ordered newest first, and they are exactly the
\* most recently added entries: the k-th entry of the history is the k-th
\* last item added since the history was last cleared.
HistoryHoldsNewestTen ==
    LET n == Len(everAdded)
    IN /\ Len(explanationHistory) <= 10
       /\ Len(explanationHistory) = IF n < 10 THEN n ELSE 10
       /\ \A k \in DOMAIN explanationHistory : explanationHistory[k] = everAdded[n - k + 1]
       /\ \A j \in DOMAIN explanationHistory : \A k \in DOMAIN explanationHistory :
              j < k => explanationHistory[j].timestamp > explanationHistory[k].timestamp

\* eleven explanations were added with their code: the history holds the last
\* ten, Explanation 11 first and Explanation 2 last
HistoryHoldsNewestTenWitness ==
    /\ Len(everAdded) = 11
    /\ Len(explanationHistory) = 10
    /\ explanationHistory[1].explanation = "Explanation 11"
    /\ explanationHistory[10].explanation = "Explanation 2"
    /\ everAdded[1].explanation = "Explanation 1"

(***************************************************************************)
(* Further properties of findRelatedLines                                  *)
(***************************************************************************)

\* C24: when the target line is empty or contains only whitespace,
\* findRelatedLines returns exactly [targetLine], wherever in the document
\* that line is.
BlankLineRelatesToItselfOnly ==
    (pc = "done" /\ outcome.kind = "array" /\ thrown = NothingThrown
         /\ Trim(LineAt(document, targetLine)) = "") =>
        outcome.lines = <<targetLine>>

\* C25: when the target line is a class's constructor header, the result of
\* findRelatedLines includes the class declaration line and the lines inside
\* the constructor that initialise properties (`this.NAME = ...`).  The
\* inside of the constructor are the lines after the header up to the line on
\* which the braces counted from the header on are balanced again.
ConstructorInitialisationsIncluded ==
    (pc = "done" /\ outcome.kind = "array" /\ thrown = NothingThrown
         /\ Test(Bol \o Ws \o Lit("constructor") \o Ws \o Lit("("),
                 LineAt(document, targetLine))) =>
        LET lastLine == LineCount(document) - 1
            positions == {<<i, k>> \in (targetLine..lastLine) \X (1..80) :
                              k <= Len(LineAt(document, i))}
            Char(p) == CharAt(LineAt(document, p[1]), p[2])
            UpTo(q) == {p \in positions : p[1] < q[1] \/ (p[1] = q[1] /\ p[2] <= q[2])}
            Depth(q) == Cardinality({p \in UpTo(q) : Char(p) = "{"})
                            - Cardinality({p \in UpTo(q) : Char(p) = "}"})
            balanced == {q[1] : q \in {r \in positions : Char(r) = "}" /\ Depth(r) = 0}}
            closing == IF balanced = {} THEN lastLine
                       ELSE CHOOSE i \in balanced : \A j \in balanced : i <= j
            classLines == {i \in 0..(targetLine - 1) :
                               Test(Wb \o Lit("class") \o Ws1 \o IdGroup, LineAt(document, i))}
            initialisations ==
                {i \in (targetLine + 1)..closing :
                     Test(Lit("this.") \o IdGroup \o Ws \o Lit("="), LineAt(document, i))}
        IN /\ initialisations \subseteq Range(outcome.lines)
           /\ \A c \in classLines :
                  (\A d \in classLines : d <= c) => c \in Range(outcome.lines)

\* C29: when the target line is a `case X:` or `default:` label inside a
\* switch, the control-flow finder locates the enclosing `switch (...)` header
\* by scanning backward and adds the case and default lines of that switch:
\* the labels between the nearest switch header above the target line and the
\* line on which the braces counted from that header are balanced again.
CaseLabelFindsItsSwitch ==
    LET IsLabel(lineText) ==
            \/ Test(Bol \o Ws \o Lit("case") \o Ws1 \o AnyStar \o Lit(":"), lineText)
            \/ Test(Bol \o Ws \o Lit("default") \o Ws \o Lit(":"), lineText)
        headers == {i \in 0..(targetLine - 1) :
                        Test(Bol \o Ws \o Lit("switch") \o Ws \o Lit("("), LineAt(document, i))}
    IN (pc = "findClassMemberRelationships" /\ thrown = NothingThrown
            /\ IsLabel(LineAt(document, targetLine)) /\ headers # {}) =>
           LET header == CHOOSE i \in headers : \A j \in headers : j <= i
               lastLine == LineCount(document) - 1
               positions == {<<i, k>> \in (header..lastLine) \X (1..80) :
                                 k <= Len(LineAt(document, i))}
               Char(p) == CharAt(LineAt(document, p[1]), p[2])
               UpTo(q) == {p \in positions : p[1] < q[1] \/ (p[1] = q[1] /\ p[2] <= q[2])}
               Depth(q) == Cardinality({p \in UpTo(q) : Char(p) = "{"})
                               - Cardinality({p \in UpTo(q) : Char(p) = "}"})
               balanced == {q[1] : q \in {r \in positions : Char(r) = "}" /\ Depth(r) = 0}}
               closing == IF balanced = {} THEN lastLine + 1
                          ELSE CHOOSE i \in balanced : \A j \in balanced : i <= j
           IN targetLine < closing =>
                  {i \in (header + 1)..(closing - 1) : IsLabel(LineAt(document, i))}
                      \subseteq added[3]

\* C30: when the target line is a loop header, the control-flow finder adds
\* the header line, the line of the loop's matching closing brace, and every
\* break/continue line strictly between them; it adds no break/continue line
\* that lies outside that boundary.  The matching closing brace is the one on
\* which the braces counted from the header on are balanced for the first
\* time, on a line after the header; a break/continue line is a line that
\* begins with the statement.
LoopAddsItsOwnBreaks ==
    LET IsHeader(lineText) ==
            Test(Bol \o Ws \o Alt(<<Lit("for"), Lit("while"), Lit("do")>>) \o Ws
                     \o Set({"(", "{"}), lineText)
        IsBreak(lineText) ==
            Test(Bol \o Ws \o Alt(<<Lit("break"), Lit("continue")>>) \o Wb, lineText)
    IN (pc = "enhancedImportAnalysis" /\ thrown = NothingThrown
            /\ IsHeader(LineAt(document, targetLine))) =>
           LET lastLine == LineCount(document) - 1
               positions == {<<i, k>> \in (targetLine..lastLine) \X (1..80) :
                                 k <= Len(LineAt(document, i))}
               Char(p) == CharAt(LineAt(document, p[1]), p[2])
               UpTo(q) == {p \in positions : p[1] < q[1] \/ (p[1] = q[1] /\ p[2] <= q[2])}
               Depth(q) == Cardinality({p \in UpTo(q) : Char(p) = "{"})
                               - Cardinality({p \in UpTo(q) : Char(p) = "}"})
               balanced == {q[1] : q \in {r \in positions : Char(r) = "}" /\ Depth(r) = 0}}
               closing == CHOOSE i \in balanced : \A j \in balanced : i <= j
               breaks == {i \in 0..lastLine : IsBreak(LineAt(document, i))}
           IN (balanced # {} /\ closing > targetLine) =>
                  /\ {targetLine, closing} \subseteq added[3]
                  /\ {i \in breaks : targetLine < i /\ i < closing} \subseteq added[3]
                  /\ \A i \in breaks \cap added[3] : targetLine < i /\ i < closing

\* the for loop of lines 1 to 6 is the target: its continue on line 3 is
\* added, the break of the while loop on line 9 is not
LoopAddsItsOwnBreaksWitness ==
    /\ pc = "enhancedImportAnalysis"
    /\ thrown = NothingThrown
    /\ document = LoopCode
    /\ targetLine = 1
    /\ added[3] = {1, 3, 6}

\* ---------------------------------------------------------------------------
\* Further properties of the webview provider
\* ---------------------------------------------------------------------------

\* C27: updateContent adds a history entry only when both a code snippet and
\* a language are supplied; when either is missing it sets the state to
\* 'explanation' and the current explanation but leaves the history unchanged.
\* A step that changes the recorded arguments or the count of calls is a call
\* of updateContent; an argument that is missing or empty is "".
HistoryUnchangedWithoutSnippetOrLanguage ==
    [][(lastUpdate' # lastUpdate \/ updates' # updates) =>
           /\ currentState' = "explanation"
           /\ currentExplanation' = lastUpdate'.explanation
           /\ (lastUpdate'.codeSnippet = "" \/ lastUpdate'.language = "") =>
                  explanationHistory' = explanationHistory
           /\ explanationHistory' # explanationHistory =>
                  /\ lastUpdate'.codeSnippet # "" /\ lastUpdate'.language # ""
                  /\ Head(explanationHistory').explanation = lastUpdate'.explanation]_vars

\* the second call came with a code snippet and without a language: the
\* history still holds the item of the first call and nothing else
HistoryUnchangedWithoutSnippetOrLanguageWitness ==
    /\ lastUpdate = [called |-> TRUE, explanation |-> "Explanation 2",
                     codeSnippet |-> "code", language |-> ""]
    /\ currentState = "explanation"
    /\ currentExplanation = "Explanation 2"
    /\ Len(explanationHistory) = 1
    /\ explanationHistory[1].explanation = "Explanation 1"

\* ---------------------------------------------------------------------------
\* Further properties of retryWithBackoff
\* ---------------------------------------------------------------------------

\* C22: a Gemini API failure with HTTP status 400, 401 or 403 is surfaced by
\* explainCode as a non-retryable ApiError, so the explanation request is
\* attempted only once, while a failure with status 429, 500, 502, 503 or 504
\* is surfaced as a retryable ApiError and is attempted again by
\* retryWithBackoff.  An invocation that fails with one of the first is the
\* last one of the call and no sleep follows it; one that fails with one of
\* the second before the limit of retries is followed by a sleep and, once
\* the call has ended, by another invocation.
StatusDecidesWhetherRetried ==
    \A i \in DOMAIN invocations :
        LET error == invocations[i].error
        IN (~invocations[i].ok /\ error \in ExplainCodeErrors) =>
               /\ error.statusCode \in {400, 401, 403} =>
                      /\ error.class = "ApiError" /\ ~error.retryable
                      /\ i = Len(invocations)
                      /\ Len(sleeps) = i - 1
                      /\ retryPc = "done"
                      /\ retryOutcome.kind = "error" /\ retryOutcome.error = error
               /\ (error.statusCode \in {429, 500, 502, 503, 504} /\ i <= maxRetries) =>
                      /\ error.class = "ApiError" /\ error.retryable
                      /\ Len(sleeps) >= i
                      /\ retryPc = "done" => i < Len(invocations)

\* the request was turned down with 429 and with 503, tried a third time and
\* then turned down for good with 403
StatusDecidesWhetherRetriedWitness ==
    /\ retryPc = "done"
    /\ maxRetries = MAX_RETRIES
    /\ Len(invocations) = 3
    /\ invocations[1].error = HandleApiError(GeminiError(429, "failed"))
    /\ invocations[2].error = HandleApiError(GeminiError(503, "failed"))
    /\ invocations[3].error = HandleApiError(GeminiError(403, "failed"))
    /\ sleeps = <<1000, 2000>>

\* ---------------------------------------------------------------------------
\* Further properties of the selection handler
\* ---------------------------------------------------------------------------

\* C28: at most one selection-triggered explanation request is in flight at
\* any time: from the moment handleSelectionChange starts work for a selection
\* until that selection's explanation or error has been delivered to the
\* webview, no other debounced selection event starts code analysis or an API
\* call.
AtMostOneRequestInFlight == Cardinality(inFlight) <= 1

\* ---------------------------------------------------------------------------
\* Properties of the integration service
\* ---------------------------------------------------------------------------

\* C21: processCodeExplanation never rejects: a failure during analysis,
\* explanation generation or the UI update yields {success: false, error}
\* whose text begins with 'Code analysis error' for analysis failures and
\* 'API error' for API failures, and only a run in which all three steps
\* succeed yields {success: true, explanation}.  The steps are taken by what
\* the three collaborators did: analyzeCodeSelection, retryWithBackoff around
\* explainCode, and updateContent.
ProcessingFailsWithNamedError ==
    processPc = "done" =>
        /\ processResult.settled = "resolved"
        /\ ~analysisOutcome.ok =>
               /\ ~processResult.success
               /\ StartsWith(processResult.error, "Code analysis error")
        /\ (analysisOutcome.ok /\ apiOutcome # NoApiOutcome /\ ~apiOutcome.ok) =>
               /\ ~processResult.success
               /\ StartsWith(processResult.error, "API error")
        /\ uiOutcome = "UI update failed" =>
               /\ ~processResult.success
               /\ processResult.error # ""
        /\ processResult.success =>
               /\ analysisOutcome.ok /\ apiOutcome.ok /\ uiOutcome = "updated"
               /\ processResult.explanation = apiOutcome.value
               /\ currentExplanation = apiOutcome.value
        /\ ~processResult.success =>
               (~analysisOutcome.ok \/ ~apiOutcome.ok \/ uiOutcome # "updated"
                    \/ ValidateAnalysisResult(analysisOutcome.analysisResult) # "")

\* the first run went through its three steps and showed its explanation; in
\* the second run the analysis threw an error that is no AnalysisError
ProcessingFailsWithNamedErrorWitness ==
    /\ processPc = "done"
    /\ runs = 2
    /\ lastUpdate.explanation = "This line declares the constant x."
    /\ lastUpdate.codeSnippet = "return x + y;\nconst y = 2;"
    /\ Len(explanationHistory) = 1
    /\ analysisOutcome = AnalysisRejected(PlainError("Mock error"))
    /\ processResult = [settled |-> "resolved", success |-> FALSE, explanation |-> "",
                        error |-> "Code analysis error: Code analysis failed: Mock error"]

\* ---------------------------------------------------------------------------
\* Properties of the extension module
\* ---------------------------------------------------------------------------

\* C23: deactivate() never throws, whether or not activate() has completed
\* before it; after it returns getExtensionStatus().isActive is false.
DeactivateNeverThrows ==
    \A i \in DOMAIN lifecycle :
        lifecycle[i].call = "deactivate" =>
            /\ lifecycle[i].outcome = "returned"
            /\ ~lifecycle[i].isActive

\* ---------------------------------------------------------------------------
\* Properties of the decoration manager
\* ---------------------------------------------------------------------------

\* C26, as stated: after highlightLines(editor, lines) with a non-empty list
\* of valid line numbers, getHighlightedLines(editor) reports lines[0] as the
\* selected line and the remaining lines as related lines.
RemainingLinesAreRelated ==
    (/\ highlighted # NoHighlight
     /\ highlighted.lines # <<>>
     /\ \A k \in DOMAIN highlighted.lines :
            /\ highlighted.lines[k] >= 0
            /\ highlighted.lines[k] < Len(EditorDocument(highlighted.editor))) =>
        /\ GetHighlightedLines(currentDecorations, highlighted.editor).selectedLine
               = highlighted.lines[1]
        /\ GetHighlightedLines(currentDecorations, highlighted.editor).relatedLines
               = Tail(highlighted.lines)

\* C26, amended: after highlightLines(editor, lines) with a non-empty list of
\* valid line numbers, getHighlightedLines(editor) reports lines[0] as the
\* selected line and the remaining lines that differ from lines[0], in their
\* order, as related lines; in every reachable decoration state the related
\* lines of an editor never contain one of its selected lines.
RelatedLinesExcludeSelected ==
    /\ (/\ highlighted # NoHighlight
        /\ highlighted.lines # <<>>
        /\ \A k \in DOMAIN highlighted.lines :
               /\ highlighted.lines[k] >= 0
               /\ highlighted.lines[k] < Len(EditorDocument(highlighted.editor))) =>
           LET reported == GetHighlightedLines(currentDecorations, highlighted.editor)
               rest == Tail(highlighted.lines)
               kept == {k \in DOMAIN rest : rest[k] # highlighted.lines[1]}
           IN /\ reported.selectedLine = highlighted.lines[1]
              /\ Len(reported.relatedLines) = Cardinality(kept)
              /\ \A k \in kept :
                     reported.relatedLines[Cardinality({j \in kept : j <= k})] = rest[k]
    /\ \A editor \in Editors :
           {currentDecorations[editor].relatedLines[k].start.line :
                k \in DOMAIN currentDecorations[editor].relatedLines}
             \cap {currentDecorations[editor].selectedLine[k].start.line :
                       k \in DOMAIN currentDecorations[editor].selectedLine} = {}

\* highlightLines was called with line 1, line 0 and line 1 again: line 1 is
\* the selected line and line 0 the only related one
RelatedLinesExcludeSelectedWitness ==
    /\ highlighted = [editor |-> "a.ts", lines |-> <<1, 0, 1>>]
    /\ GetHighlightedLines(currentDecorations, "a.ts")
           = [selectedLine |-> 1, relatedLines |-> <<0>>]

\* C31: when the target line is a break or continue statement, the
\* control-flow finder adds the header of the nearest loop that encloses the
\* target line, together with that loop's full relationship set (its boundary
\* and the break/continue lines inside it).  A loop encloses the target line
\* when its header lies above the line and the brace that closes it lies
\* below.
BreakFindsEnclosingLoop ==
    LET IsHeader(lineText) ==
            Test(Bol \o Ws \o Alt(<<Lit("for"), Lit("while"), Lit("do")>>) \o Ws
                     \o Set({"(", "{"}), lineText)
        IsBreak(lineText) ==
            Test(Bol \o Ws \o Alt(<<Lit("break"), Lit("continue")>>) \o Wb, lineText)
        lastLine == LineCount(document) - 1
        Positions(h) == {<<i, k>> \in (h..lastLine) \X (1..80) :
                             k <= Len(LineAt(document, i))}
        Char(p) == CharAt(LineAt(document, p[1]), p[2])
        UpTo(h, q) == {p \in Positions(h) :
                           p[1] < q[1] \/ (p[1] = q[1] /\ p[2] <= q[2])}
        Depth(h, q) == Cardinality({p \in UpTo(h, q) : Char(p) = "{"})
                           - Cardinality({p \in UpTo(h, q) : Char(p) = "}"})
        Balanced(h) == {q[1] : q \in {r \in Positions(h) :
                                          Char(r) = "}" /\ Depth(h, r) = 0}}
        Closing(h) == IF Balanced(h) = {} THEN lastLine + 1
                      ELSE CHOOSE i \in Balanced(h) : \A j \in Balanced(h) : i <= j
    IN (pc = "enhancedImportAnalysis" /\ thrown = NothingThrown
            /\ IsBreak(LineAt(document, targetLine))) =>
           LET enclosing == {h \in 0..(targetLine - 1) :
                                 /\ IsHeader(LineAt(document, h))
                                 /\ Closing(h) > targetLine}
           IN enclosing # {} =>
                  LET loop == CHOOSE h \in enclosing : \A j \in enclosing : j <= h
                  IN /\ loop \in added[3]
                     /\ Closing(loop) <= lastLine => Closing(loop) \in added[3]
                     /\ {i \in (loop + 1)..(Closing(loop) - 1) :
                             IsBreak(LineAt(document, i))} \subseteq added[3]

\* C35, as stated: starting from an `if` target line, the forward walk adds
\* each following `else if`/`else` header line and stops at the first line
\* that is neither such a header nor blank nor a comment, so no `else` header
\* lying beyond such a line is added.  A header is a line that, trimmed,
\* begins with `else`; the lines added as the boundary of the `if` are left
\* out of account.
ElseWalkStopsAtFirstOtherLine ==
    LET Text(i) == Trim(LineAt(document, i))
        IsElse(i) == Test(Bol \o Lit("else"), Text(i))
        IsComment(i) == \/ StartsWith(Text(i), "//") \/ StartsWith(Text(i), "/*")
                        \/ StartsWith(Text(i), "*") \/ StartsWith(Text(i), "#")
        below == (targetLine + 1)..(LineCount(document) - 1)
        stops == {i \in below : ~IsElse(i) /\ Text(i) # "" /\ ~IsComment(i)}
        Reached(i) == \A j \in stops : i < j
    IN (pc = "enhancedImportAnalysis" /\ thrown = NothingThrown
            /\ Test(Bol \o Ws \o Lit("if") \o Ws \o Set({"(", "{"}),
                    LineAt(document, targetLine))) =>
           \A i \in below :
               IsElse(i) =>
                   \/ i \in Range(FindControlStructureBoundaries(document, targetLine))
                   \/ (i \in added[3] <=> Reached(i))

\* C35, amended: starting from an `if` target line, the forward walk adds each
\* following line that begins with `else if (` or `else`, passes over blank
\* lines, comment lines and lines that begin with a closing brace (a
\* `} else {` line among them, which it does not add), and stops at the first
\* other line, so no `else` header lying beyond such a line is added.
ElseWalkPassesClosingBraces ==
    LET Text(i) == Trim(LineAt(document, i))
        IsElse(i) == Test(Bol \o Lit("else"), Text(i))
        IsComment(i) == \/ StartsWith(Text(i), "//") \/ StartsWith(Text(i), "/*")
                        \/ StartsWith(Text(i), "*") \/ StartsWith(Text(i), "#")
        below == (targetLine + 1)..(LineCount(document) - 1)
        stops == {i \in below : /\ ~IsElse(i) /\ Text(i) # "" /\ ~IsComment(i)
                                /\ ~StartsWith(Text(i), "}")}
        Reached(i) == \A j \in stops : i < j
    IN (pc = "enhancedImportAnalysis" /\ thrown = NothingThrown
            /\ Test(Bol \o Ws \o Lit("if") \o Ws \o Set({"(", "{"}),
                    LineAt(document, targetLine))) =>
           \A i \in below :
               \/ i \in Range(FindControlStructureBoundaries(document, targetLine))
               \/ (i \in added[3] <=> (IsElse(i) /\ Reached(i)))

\* the if of line 0 is the target: the else if of line 3, behind the closing
\* brace of line 2, is added; the `} else {` of line 5 is passed over and the
\* else of line 8, beyond the statement of line 6, is not reached
ElseWalkPassesClosingBracesWitness ==
    /\ pc = "enhancedImportAnalysis"
    /\ thrown = NothingThrown
    /\ document = ElseCode
    /\ targetLine = 0
    /\ added[3] = {0, 2, 3}

\* C36: for each identifier the variable finder extracts from the target line,
\* every other line of the document that contains that identifier as a whole
\* word (an occurrence with a word boundary on both sides) is added to the
\* result, with no regard to scope, and no line is added by this finder for any
\* other reason.
VariableLinesAreWholeWordLines ==
    LET Occurs(v, s, p) == /\ p + Len(v) - 1 <= Len(s)
                           /\ SubSeq(s, p, p + Len(v) - 1) = v
        WholeWord(v, s) ==
            \E p \in 1..Len(s) :
                /\ Occurs(v, s, p)
                /\ IsWordAt(s, p - 1) # IsWordAt(s, p)
                /\ IsWordAt(s, p + Len(v) - 1) # IsWordAt(s, p + Len(v))
    IN (pc = Finders[2] /\ thrown = NothingThrown) =>
           added[1] = {i \in (0..(LineCount(document) - 1)) \ {targetLine} :
                          \E v \in ExtractVariables(LineAt(document, targetLine)) :
                              WholeWord(v, LineAt(document, i))}

\* C33: once selection events stop arriving, the last selection the user made
\* is eventually analysed and its explanation or error shown, even if its
\* debounce timer fired while an earlier selection was still being processed.
\* Stated for the states in which nothing is left to happen (no timeout is
\* pending and no request is in flight, so without a further selection event
\* the handler takes no step again): there handleSelectionChange has taken up
\* the selection of the last event, for that event or for an earlier one with
\* the same selection.
LastSelectionIsTakenUp ==
    (events # <<>> /\ timers = {} /\ inFlight = {} /\ ~disposed) =>
        \E k \in DOMAIN handed :
            /\ handed[k].processed
            /\ events[handed[k].event].sel = events[Len(events)].sel

\* ---------------------------------------------------------------------------
\* Properties of the explanation requests
\* ---------------------------------------------------------------------------

\* C32: if two explanation requests overlap in time, the webview finally shows
\* the outcome (explanation or error) of the request that was started last,
\* regardless of the order in which the requests, or their 30-second timeout
\* notices, complete.  Finally: when no request is pending any more; requests
\* that do not overlap end in the order they were started in.
LastStartedRequestIsShown ==
    (requests = {} /\ shown # NoRequestShown) =>
        /\ shown.request = started
        /\ shown.kind \in {"explanation", "error"}

\* C34: the webview is in the 'loading' state only while an explanation
\* request is pending: every request that put it into 'loading' later moves it
\* to 'explanation' or 'error', and a provider restored from persisted
\* workspace state does not come up in 'loading'.
LoadingOnlyWhilePending == currentState = "loading" => requests # {}

====
